---- MODULE Spec2Model ----
(***************************************************************************)
(* Scene state and consistency subsystem of agentdraw-canvas: the identity *)
(* map of the ShapeRegistry, the snapshot History and the                  *)
(* AnimationRegistry, over a Konva layer modelled as a heap of nodes plus  *)
(* the ordered list of the layer's children.                               *)
(*                                                                         *)
(* Numbers: scale and opacity are in hundredths (100 = 1.0); positions,    *)
(* sizes and offsets are integers with even sizes, so that the centre of a *)
(* self rectangle is an integer and |dx| < 0.5 is dx = 0.                  *)
(***************************************************************************)
EXTENDS Integers, Sequences, FiniteSets, TLC

\* ------------------------------------------------------------------ bounds
MaxCapacity == 3      \* largest maxSteps a history is configured with
MaxId       == 7     \* Konva _id values handed out
MaxUuid     == 2      \* crypto.randomUUID() values handed out
MaxDepth    == 2      \* nesting of history.batch(fn) calls
MaxTime     == 2      \* sampled frame times of a running animation
MaxOps      == 5      \* handler and callback runs of one behaviour of Spec
MaxOpsA     == 7      \* the same, of one behaviour of SpecA
MaxSaves    == 5      \* save() calls of one behaviour of SpecSave

\* --------------------------------------------------------------- constants
NoPub  == 0           \* a node without _publicId
WM     == 1           \* _id of core.watermark
TR     == 2           \* _id of core.tr
FirstId == 3          \* first _id free after createCore
NoFill == "none"      \* fill() of a node whose fill is null / undefined
Shadow == "rgba(0,0,0,0.3)"

VARIABLES
  maxSteps,   \* createHistory option
  stack,      \* history: sequence of snapshots {json, uuidMap}
  cursor,     \* history: 0-based index of the current entry, -1 if none
  batching,   \* history: _batching
  depth,      \* number of batch(fn) calls whose fn is executing
  nodes,      \* heap: _id -> Konva node (attrs and _publicId)
  layer,      \* core.layer.getChildren(): sequence of _id, bottom first
  nextId,     \* Konva idCounter
  shapeMap,   \* ShapeRegistry _shapeMap: uuid -> _id
  nextUuid,   \* next value of crypto.randomUUID()
  selected,   \* Interaction _selected: _id or 0
  running,    \* AnimationRegistry _running: _id -> {type, state, t}
  tweens,     \* Konva tweens started by node.to() and not yet finished
  timers,     \* pending setTimeout callbacks of clearAll()
  color,      \* Color _color
  toast,      \* text of the last ui.toast, "" if none
  active,     \* ToolRegistry _active: name of the active tool
  calls,      \* tool handlers the last run of the ToolRegistry called, in order
  tempShape,  \* Drawing _tempShape: _id of the shape being dragged out, or 0
  notices,    \* 'history:change' payloads the last handler run emitted
  listeners,  \* EventBus _listeners.get(event): its handlers, oldest first
  invoked,    \* per handler ever subscribed: how it was subscribed, calls of fn
  announced,  \* per node: the 'animation:start' / 'animation:stop' events
              \* emitted so far that no later event of the node has closed
  steps,      \* handler and callback runs so far (where a specification counts)
  last        \* the handler or callback that ran last

vars == <<maxSteps, stack, cursor, batching, depth, nodes, layer, nextId,
          shapeMap, nextUuid, selected, running, tweens, timers, color, toast,
          active, calls, tempShape, notices, listeners, invoked, announced,
          steps, last>>

\* ------------------------------------------------------------- sequences
Range(s) == { s[i] : i \in 1..Len(s) }

RECURSIVE Without(_, _)
\* children list after Konva removes node id from it
Without(s, id) ==
  IF s = <<>> THEN <<>>
  ELSE IF Head(s) = id THEN Without(Tail(s), id)
  ELSE <<Head(s)>> \o Without(Tail(s), id)

\* Node.moveToTop(): the node becomes the last child
MoveToTop(s, id) == IF id \in Range(s) THEN Append(Without(s, id), id) ELSE s

\* Container.add(child) of a node that has no parent
AddChild(s, id) == Append(s, id)

\* Map.set(k, v) and Map.delete(k)
Put(f, k, v) == [i \in DOMAIN f \cup {k} |-> IF i = k THEN v ELSE f[i]]
Drop(f, k) == [i \in DOMAIN f \ {k} |-> f[i]]

\* ------------------------------------------------------------------ nodes
AttrNames == {"cls", "name", "x", "y", "rot", "sx", "sy", "opa", "fill",
              "sblur", "scol", "ox", "oy", "w", "h", "drag", "vis"}

\* new Konva.<cls>(attrs): a node with Konva's defaults for what attrs omits
NewNode(cls, attrs) ==
  LET dflt == [cls |-> cls, name |-> "", x |-> 0, y |-> 0, rot |-> 0,
               sx |-> 100, sy |-> 100, opa |-> 100, fill |-> NoFill,
               sblur |-> 0, scol |-> "black", ox |-> 0, oy |-> 0,
               w |-> 0, h |-> 0, drag |-> FALSE, vis |-> TRUE, pub |-> NoPub]
  IN [k \in DOMAIN dflt |-> IF k \in DOMAIN attrs THEN attrs[k] ELSE dflt[k]]

\* node.setAttrs(props)
SetAttrs(n, props) ==
  [k \in DOMAIN n |-> IF k \in DOMAIN props THEN props[k] ELSE n[k]]

\* node.toObject(): className and attrs; _id and _publicId are not attrs
ToObject(n) == [k \in AttrNames |-> n[k]]

\* Konva.Node.create of one serialized child: a new construction
FromObject(o) == NewNode(o.cls, o)

Watermark == NewNode("Text", [name |-> "watermark", x |-> 80, y |-> 60,
                              fill |-> "rgba(128, 128, 128, 0.3)"])
Transformer == NewNode("Transformer", [name |-> ""])

Alive(id) == id \in Range(layer)

\* ------------------------------------------------------------- geometry
\* getSelfRect(): the model's shapes have their self rectangle at (0,0,w,h)
CentreX(n) == n.w \div 2
CentreY(n) == n.h \div 2

\* the {dx, dy} that _shiftToCenter returns
ShiftDelta(n) ==
  LET dx == CentreX(n) - n.ox
      dy == CentreY(n) - n.oy
  IN IF dx = 0 /\ dy = 0 THEN [dx |-> 0, dy |-> 0] ELSE [dx |-> dx, dy |-> dy]

\* the node after _shiftToCenter
ShiftToCenter(n) ==
  LET d == ShiftDelta(n)
  IN IF d.dx = 0 /\ d.dy = 0 THEN n
     ELSE [n EXCEPT !.ox = CentreX(n), !.oy = CentreY(n),
                    !.x = n.x + d.dx, !.y = n.y + d.dy]

\* shape.fill / shape.shadowBlur / shape.shadowColor exist on Konva.Shape,
\* not on Konva.Group (sticky notes) nor on the Transformer
HasFill(n) == n.cls \notin {"Group", "Transformer"}

\* ------------------------------------------------------------ animations
\* what stopForShape writes back to a node that is still in a layer
Restored(n, s) ==
  [n EXCEPT !.ox = s.origOffsetX, !.oy = s.origOffsetY,
            !.x = s.origX - s.dx, !.y = s.origY - s.dy,
            !.rot = s.origRot, !.sx = s.origScaleX, !.sy = s.origScaleY,
            !.opa = s.origOpacity,
            !.sblur = IF HasFill(n) THEN s.origShadowBlur ELSE n.sblur,
            !.scol = IF HasFill(n) THEN s.origShadowColor ELSE n.scol,
            !.fill = IF s.origFill # NoFill /\ HasFill(n) THEN s.origFill
                     ELSE n.fill]

\* heap after a stopForShape(id) that would not test shape.getLayer()
StopNodesDetached(ns, run, lay, id) ==
  IF id \in DOMAIN run /\ id \in DOMAIN ns
  THEN [ns EXCEPT ![id] = Restored(ns[id], run[id].state)]
  ELSE ns

\* heap after stopForShape(id)
StopNodes(ns, run, lay, id) ==
  IF id \in DOMAIN run /\ id \in Range(lay) /\ id \in DOMAIN ns
  THEN [ns EXCEPT ![id] = Restored(ns[id], run[id].state)]
  ELSE ns

\* heap after stopAll: stopForShape for every key of _running
StopAllNodes(ns, run, lay) ==
  [i \in DOMAIN ns |-> IF i \in DOMAIN run /\ i \in Range(lay)
                       THEN Restored(ns[i], run[i].state) ELSE ns[i]]

NoRunning == [i \in {} |-> 0]

\* the payload of an 'animation:start' / 'animation:stop' event of a node
Event(ev, type) == [ev |-> ev, type |-> type]

\* events.emit('animation:' + ev, {shapeId: id, type}): a stop event closes
\* the start event of its type when that is the only open event of the node;
\* every other event stays open
Announce(ann, id, ev, type) ==
  LET open == IF id \in DOMAIN ann THEN ann[id] ELSE <<>>
      now  == IF ev = "stop" /\ open = <<Event("start", type)>>
              THEN <<>>
              ELSE Append(open, Event(ev, type))
  IN IF now = <<>> THEN Drop(ann, id) ELSE Put(ann, id, now)

\* the event stopForShape(id) emits: none when the node has no record
StopEvents(ann, run, id) ==
  IF id \in DOMAIN run THEN Announce(ann, id, "stop", run[id].type) ELSE ann

RECURSIVE StopEach(_, _, _)
StopEach(ann, run, ids) ==
  IF ids = {} THEN ann
  ELSE LET i == CHOOSE j \in ids : TRUE
       IN StopEach(StopEvents(ann, run, i), run, ids \ {i})

\* the events of stopAll(silent) as they would be if silent suppressed them
StopAllEventsSilenced(ann, run, silent) ==
  IF silent THEN ann ELSE StopEach(ann, run, DOMAIN run)

\* the events stopAll(silent) emits: stopForShape for every key of _running
StopAllEvents(ann, run, silent) == StopEach(ann, run, DOMAIN run)

\* ------------------------------------------------------------------ heap
\* objects still referenced by the program; the rest is garbage
Reach(lay, sel, run, tw, sm) ==
  {WM, TR} \cup Range(lay) \cup ({sel} \ {0}) \cup DOMAIN run
  \cup { t.node : t \in tw } \cup { sm[u] : u \in DOMAIN sm }

Gc(ns, lay, sel, run, tw, sm) ==
  [i \in (DOMAIN ns \cap (Reach(lay, sel, run, tw, sm) \cup {tempShape})) |->
     ns[i]]

\* the heap once Drawing has dropped its reference to the dragged shape
GcReleased(ns, lay, sel, run, tw, sm) ==
  [i \in (DOMAIN ns \cap Reach(lay, sel, run, tw, sm)) |-> ns[i]]

\* --------------------------------------------------------------- tweens
\* attrs a node.to() call animates, by the call site
TweenKeys(kind) ==
  CASE kind = "enter" -> {"opa", "sx", "sy"}
    [] kind = "erase" -> {"opa", "sx", "sy"}
    [] kind = "clear" -> {"opa", "sx", "sy"}
    [] kind = "dup"   -> {"opa"}
    [] kind = "unsel" -> {"sblur", "scol"}
    [] kind = "align" -> {"x", "y"}

\* end values of a node.to() call
TweenEnd(kind) ==
  CASE kind = "enter" -> [opa |-> 100, sx |-> 100, sy |-> 100]
    [] kind = "erase" -> [opa |-> 0, sx |-> 35, sy |-> 35]
    [] kind = "clear" -> [opa |-> 0, sx |-> 0, sy |-> 0]
    [] kind = "dup"   -> [opa |-> 100]
    [] kind = "unsel" -> [sblur |-> 8, scol |-> Shadow]
    [] kind = "align" -> [x |-> 100, y |-> 100]

\* node.to(): a new tween takes over the attrs it shares with older tweens
\* of the same node; the older tweens keep running and still finish
StartTween(tw, id, kind) ==
  { [t EXCEPT !.keys = IF t.node = id THEN t.keys \ TweenKeys(kind) ELSE t.keys]
      : t \in tw }
  \cup { [node |-> id, kind |-> kind, keys |-> TweenKeys(kind)] }

\* --------------------------------------------------------------- history
\* core.layer.toJSON() with the watermark hidden
LayerJson(ns, lay) ==
  [i \in 1..Len(lay) |->
     ToObject(IF lay[i] = WM THEN [ns[WM] EXCEPT !.vis = FALSE] ELSE ns[lay[i]])]

\* _snapshot(): the layer's JSON and the uuid -> _id table
Snapshot(ns, lay, sm) == [json |-> LayerJson(ns, lay), uuidMap |-> sm]

\* variants of save() that the properties of the history must tell apart
\* from the code: a push that keeps the redo entries,
PushedKeepingRedo(st, cur, snap) == Append(st, snap)

\* a stack that is never trimmed, a stack trimmed at its newest end,
SaveStackUntrimmed(st, cur, snap, cap) == Append(SubSeq(st, 1, cur + 1), snap)

SaveStackDropNewest(st, cur, snap, cap) ==
  IF cur + 2 > cap THEN SubSeq(st, 1, cur + 1)
  ELSE Append(SubSeq(st, 1, cur + 1), snap)

\* and a cursor that advances on every save
SaveCursorAdvancing(st, cur, snap, cap) == cur + 1

\* save(): stack.slice(0, cursor + 1) then push
Pushed(st, cur, snap) == Append(SubSeq(st, 1, cur + 1), snap)

\* save(): the stack after the capacity check
SaveStack(st, cur, snap, cap) ==
  IF Len(Pushed(st, cur, snap)) > cap THEN Tail(Pushed(st, cur, snap))
  ELSE Pushed(st, cur, snap)

\* save(): the cursor after the capacity check
SaveCursor(st, cur, snap, cap) ==
  IF Len(Pushed(st, cur, snap)) > cap THEN cur ELSE cur + 1

\* _notify(): the payload of the 'history:change' event
Notice(st, cur) == [canUndo |-> cur > 0, canRedo |-> cur < Len(st) - 1]

\* history.save() as it would be if it announced suppressed saves too
SavedAnnouncingAlways(h, ns, lay, sm) ==
  IF batching
  THEN [h EXCEPT !.notices = Append(@, Notice(h.stack, h.cursor))]
  ELSE LET st  == SaveStack(h.stack, h.cursor, Snapshot(ns, lay, sm), maxSteps)
           cur == SaveCursor(h.stack, h.cursor, Snapshot(ns, lay, sm), maxSteps)
       IN [stack |-> st, cursor |-> cur,
           notices |-> Append(h.notices, Notice(st, cur))]

\* history.save() on the scene (ns, lay, sm): the new {stack, cursor} and the
\* events emitted so far
Saved(h, ns, lay, sm) ==
  IF batching THEN h
  ELSE LET st  == SaveStack(h.stack, h.cursor, Snapshot(ns, lay, sm), maxSteps)
           cur == SaveCursor(h.stack, h.cursor, Snapshot(ns, lay, sm), maxSteps)
       IN [stack |-> st, cursor |-> cur,
           notices |-> Append(h.notices, Notice(st, cur))]

History == [stack |-> stack, cursor |-> cursor, notices |-> <<>>]

\* history.save() as the last call of a handler that leaves (ns, lay, sm)
HistorySave(ns, lay, sm) ==
  /\ stack' = Saved(History, ns, lay, sm).stack
  /\ cursor' = Saved(History, ns, lay, sm).cursor
  /\ notices' = Saved(History, ns, lay, sm).notices

canUndo == cursor > 0
canRedo == cursor < Len(stack) - 1

\* parsed.getChildren().forEach(child => layer.add(child)): add() moves the
\* child out of the array forEach is walking, so the walk visits the
\* children at the 0-based indices 0, 2, 4, ... of the snapshot
VisitedChildren(n) == [j \in 1..((n + 1) \div 2) |-> 2 * j - 1]

\* the uuids of snapshot.uuidMap whose saved _id is the _id of child c
RebindKeys(um, c) == { u \in DOMAIN um : um[u] = c }

\* _restore(snapshot): everything but the history's own variables
Restore(snap) ==
  LET n       == Len(snap.json)
      visited == VisitedChildren(n)
      newId(k) == nextId + k - 1
      stopped == StopAllNodes(nodes, running, layer)
      pubOf(k) == IF RebindKeys(snap.uuidMap, newId(k)) # {}
                  THEN CHOOSE u \in RebindKeys(snap.uuidMap, newId(k)) : TRUE
                  ELSE NoPub
      attached == { visited[j] : j \in 1..Len(visited) }
      bound   == { k \in attached : pubOf(k) # NoPub }
      sm      == [u \in { pubOf(k) : k \in bound } |->
                    newId(CHOOSE k \in bound : pubOf(k) = u)]
      lay     == MoveToTop([j \in 1..Len(visited) |-> newId(visited[j])]
                           \o <<WM, TR>>, WM)
      heap    == [i \in DOMAIN stopped \cup { newId(k) : k \in attached } |->
                    IF i \in DOMAIN stopped THEN stopped[i]
                    ELSE [FromObject(snap.json[i - nextId + 1])
                            EXCEPT !.pub = pubOf(i - nextId + 1)]]
      tw      == IF selected # 0 THEN StartTween(tweens, selected, "unsel")
                 ELSE tweens
  IN /\ nextId + n - 1 <= MaxId
     /\ nextId' = nextId + n
     /\ running' = NoRunning
     /\ announced' = StopAllEvents(announced, running, TRUE)
     /\ shapeMap' = sm
     /\ layer' = lay
     /\ selected' = 0
     /\ tweens' = tw
     /\ nodes' = Gc(heap, lay, 0, NoRunning, tw, sm)

\* the calls _restore(snapshot) makes, in order; k is the 1-based index in
\* snapshot.json of the rebuilt child the call is about, 0 if it is about none
Call(op, k) == [op |-> op, k |-> k]

RestoreCalls(snap) ==
  LET visited == VisitedChildren(Len(snap.json))
      wired   == SelectSeq(visited,
                           LAMBDA k : snap.json[k].drag
                                      /\ snap.json[k].name # "watermark")
  IN << Call("stopAll", 0), Call("clearMap", 0), Call("create", 0),
        Call("destroyChildren", 0) >>
     \o [j \in 1..Len(visited) |-> Call("attach", visited[j])]
     \o << Call("addWatermark", 0), Call("addTransformer", 0),
           Call("deselect", 0) >>
     \o [j \in 1..Len(wired) |-> Call("makeInteractive", wired[j])]
     \o << Call("watermarkToTop", 0) >>

\* ---------------------------------------------------------------- actions
Init ==
  /\ maxSteps \in 1..MaxCapacity
  /\ stack = <<>>
  /\ cursor = -1
  /\ batching = FALSE
  /\ depth = 0
  /\ nodes = [i \in {WM, TR} |-> IF i = WM THEN Watermark ELSE Transformer]
  /\ layer = <<WM, TR>>
  /\ nextId = FirstId
  /\ shapeMap = [u \in {} |-> 0]
  /\ nextUuid = 1
  /\ selected = 0
  /\ running = NoRunning
  /\ tweens = {}
  /\ timers = 0
  /\ color = "c1"
  /\ toast = ""
  /\ active = "select"
  /\ calls = <<>>
  /\ tempShape = 0
  /\ notices = <<>>
  /\ listeners = <<>>
  /\ invoked = <<>>
  /\ announced = <<>>
  /\ steps = 0
  /\ last = "init"

\* history.save() called directly (bootstrap, studio.History.save())
Save ==
  /\ HistorySave(nodes, layer, shapeMap)
  /\ UNCHANGED <<maxSteps, batching, depth, nodes, layer, nextId, shapeMap,
                 nextUuid, selected, running, tweens, timers, color, toast>> /\ UNCHANGED announced

\* history.undo() as it would be if the animations were stopped before the
\* cursor is tested
UndoStoppingFirst ==
  IF cursor <= 0
  THEN /\ toast' = "Nothing to undo"
       /\ running' = NoRunning
       /\ announced' = StopAllEvents(announced, running, TRUE)
       /\ nodes' = StopAllNodes(nodes, running, layer)
       /\ UNCHANGED <<maxSteps, stack, cursor, batching, depth, layer,
                      nextId, shapeMap, nextUuid, selected, tweens,
                      timers, color>> /\ notices' = <<>>
  ELSE /\ cursor' = cursor - 1
       /\ Restore(stack[cursor])
       /\ notices' = <<Notice(stack, cursor - 1)>>
       /\ UNCHANGED <<maxSteps, stack, batching, depth, nextUuid, timers,
                      color, toast>>

\* history.undo() as it would be if the restore procedure re-entered save()
UndoSavingInRestore ==
  IF cursor <= 0
  THEN /\ toast' = "Nothing to undo"
       /\ UNCHANGED <<maxSteps, stack, cursor, batching, depth, nodes, layer,
                      nextId, shapeMap, nextUuid, selected, running, tweens,
                      timers, color>> /\ UNCHANGED announced /\ notices' = <<>>
  ELSE /\ Restore(stack[cursor])
       /\ stack' = SaveStack(stack, cursor - 1,
                             Snapshot(nodes', layer', shapeMap'), maxSteps)
       /\ cursor' = SaveCursor(stack, cursor - 1,
                               Snapshot(nodes', layer', shapeMap'), maxSteps)
       /\ notices' = <<Notice(stack', cursor')>>
       /\ UNCHANGED <<maxSteps, batching, depth, nextUuid, timers, color,
                      toast>>

\* history.undo()
Undo ==
  IF cursor <= 0
  THEN /\ toast' = "Nothing to undo"
       /\ UNCHANGED <<maxSteps, stack, cursor, batching, depth, nodes, layer,
                      nextId, shapeMap, nextUuid, selected, running, tweens,
                      timers, color>> /\ UNCHANGED announced /\ notices' = <<>>
  ELSE /\ cursor' = cursor - 1
       /\ Restore(stack[cursor])
       /\ notices' = <<Notice(stack, cursor - 1)>>
       /\ UNCHANGED <<maxSteps, stack, batching, depth, nextUuid, timers,
                      color, toast>>

\* history.redo()
Redo ==
  IF cursor >= Len(stack) - 1
  THEN /\ toast' = "Nothing to redo"
       /\ UNCHANGED <<maxSteps, stack, cursor, batching, depth, nodes, layer,
                      nextId, shapeMap, nextUuid, selected, running, tweens,
                      timers, color>> /\ UNCHANGED announced /\ notices' = <<>>
  ELSE /\ cursor' = cursor + 1
       /\ Restore(stack[cursor + 2])
       /\ notices' = <<Notice(stack, cursor + 1)>>
       /\ UNCHANGED <<maxSteps, stack, batching, depth, nextUuid, timers,
                      color, toast>>

\* history.batch(fn): entry, up to the call of fn
BatchBegin ==
  /\ depth < MaxDepth
  /\ batching' = TRUE
  /\ depth' = depth + 1
  /\ UNCHANGED <<maxSteps, stack, cursor, nodes, layer, nextId, shapeMap,
                 nextUuid, selected, running, tweens, timers, color, toast>> /\ UNCHANGED announced /\ notices' = <<>>

\* history.batch(fn): the finally block, after fn returned or threw
BatchEnd ==
  /\ depth > 0
  /\ batching' = FALSE
  /\ depth' = depth - 1
  /\ stack' = SaveStack(stack, cursor, Snapshot(nodes, layer, shapeMap), maxSteps)
  /\ cursor' = SaveCursor(stack, cursor, Snapshot(nodes, layer, shapeMap), maxSteps)
  /\ notices' = <<Notice(stack', cursor')>>
  /\ UNCHANGED <<maxSteps, nodes, layer, nextId, shapeMap, nextUuid, selected,
                 running, tweens, timers, color, toast>> /\ UNCHANGED announced

\* history.batch(fn) as it would be without try / finally: when fn throws,
\* the exception leaves batch() at once
BatchThrowWithoutFinally ==
  /\ depth > 0
  /\ depth' = depth - 1
  /\ UNCHANGED <<maxSteps, stack, cursor, batching, nodes, layer, nextId,
                 shapeMap, nextUuid, selected, running, tweens, timers, color,
                 toast>> /\ UNCHANGED announced /\ notices' = <<>>

\* history.batch(fn): fn throws; the finally block runs with what fn did up
\* to the throw, then the exception leaves batch()
BatchThrow ==
  /\ depth > 0
  /\ batching' = FALSE
  /\ depth' = depth - 1
  /\ stack' = SaveStack(stack, cursor, Snapshot(nodes, layer, shapeMap), maxSteps)
  /\ cursor' = SaveCursor(stack, cursor, Snapshot(nodes, layer, shapeMap), maxSteps)
  /\ notices' = <<Notice(stack', cursor')>>
  /\ UNCHANGED <<maxSteps, nodes, layer, nextId, shapeMap, nextUuid, selected,
                 running, tweens, timers, color, toast>> /\ UNCHANGED announced

\* ------------------------------------------------------------------ shapes
ShapeTypes == {"rect", "line"}
CreateConfigs == { [x |-> 10, y |-> 10, w |-> 4, h |-> 2] }
UpdateProps == { [x |-> 30], [w |-> 8] }

\* {...base, ...config}
Merge(base, config) ==
  [k \in DOMAIN base \cup DOMAIN config |->
     IF k \in DOMAIN config THEN config[k] ELSE base[k]]

\* the defaults create() merges the caller's config into
Base == [fill |-> color, scol |-> Shadow, sblur |-> 8, opa |-> 0, drag |-> TRUE]

\* registerBuiltinShapes: the factories of 'rect' and 'line'
Factory(type, cfg) ==
  IF type = "line" THEN NewNode("Line", Merge(cfg, [fill |-> NoFill]))
  ELSE NewNode("Rect", cfg)

\* shapes.create(type, config) on the scene sc; the result is the new scene
CreateShape(sc, type, config) ==
  LET id   == sc.nextId
      uuid == sc.nextUuid
      made == ShiftToCenter(Factory(type, Merge(Base, config)))
      node == [made EXCEPT !.pub = uuid, !.sx = 5, !.sy = 5]
      lay  == MoveToTop(AddChild(sc.layer, id), WM)
      ns   == Put(sc.nodes, id, node)
      sm   == Put(sc.shapeMap, uuid, id)
      h    == Saved([stack |-> sc.stack, cursor |-> sc.cursor,
                     notices |-> sc.notices], ns, lay, sm)
  IN [nodes |-> ns, layer |-> lay, shapeMap |-> sm,
      tweens |-> StartTween(sc.tweens, id, "enter"),
      nextId |-> id + 1, nextUuid |-> uuid + 1,
      stack |-> h.stack, cursor |-> h.cursor, notices |-> h.notices]

Scene == [nodes |-> nodes, layer |-> layer, shapeMap |-> shapeMap,
          tweens |-> tweens, nextId |-> nextId, nextUuid |-> nextUuid,
          stack |-> stack, cursor |-> cursor, notices |-> <<>>]

\* studio.Shapes.create(type, config)
Create(type, config) ==
  /\ nextId <= MaxId
  /\ nextUuid <= MaxUuid
  /\ LET sc == CreateShape(Scene, type, config)
     IN /\ layer' = sc.layer
        /\ shapeMap' = sc.shapeMap
        /\ tweens' = sc.tweens
        /\ nextId' = sc.nextId
        /\ nextUuid' = sc.nextUuid
        /\ stack' = sc.stack
        /\ cursor' = sc.cursor
        /\ notices' = sc.notices
        /\ nodes' = Gc(sc.nodes, sc.layer, selected, running, sc.tweens, sc.shapeMap)
  /\ UNCHANGED <<maxSteps, batching, depth, selected, running, timers, color, toast>> /\ UNCHANGED announced

\* studio.Shapes.updateById(id, props) as it would be if it saved before it
\* looked the id up
UpdateByIdSavingFirst(uuid, props) ==
  IF uuid \notin DOMAIN shapeMap
  THEN /\ HistorySave(nodes, layer, shapeMap)
       /\ UNCHANGED <<maxSteps, batching, depth, nodes, layer, nextId,
                      shapeMap, nextUuid, selected, running, tweens, timers,
                      color, toast>> /\ UNCHANGED announced
  ELSE LET ns == [nodes EXCEPT ![shapeMap[uuid]] = SetAttrs(@, props)]
       IN /\ nodes' = ns
          /\ HistorySave(ns, layer, shapeMap)
          /\ UNCHANGED <<maxSteps, batching, depth, layer, nextId, shapeMap,
                         nextUuid, selected, running, tweens, timers, color,
                         toast>> /\ UNCHANGED announced

\* studio.Shapes.updateById(id, props)
UpdateById(uuid, props) ==
  IF uuid \notin DOMAIN shapeMap
  THEN UNCHANGED <<maxSteps, stack, cursor, batching, depth, nodes, layer,
                   nextId, shapeMap, nextUuid, selected, running, tweens,
                   timers, color, toast>> /\ UNCHANGED announced /\ notices' = <<>>
  ELSE LET ns == [nodes EXCEPT ![shapeMap[uuid]] = SetAttrs(@, props)]
       IN /\ nodes' = ns
          /\ HistorySave(ns, layer, shapeMap)
          /\ UNCHANGED <<maxSteps, batching, depth, layer, nextId, shapeMap,
                         nextUuid, selected, running, tweens, timers, color,
                         toast>> /\ UNCHANGED announced

\* nodes that makeInteractive has wired and the pointer can hit
Clickable == { i \in Range(layer) : nodes[i].drag /\ nodes[i].name # "watermark" }

\* interaction.select(shape): click with the select tool, or selectById
Select(id) ==
  /\ id \in Clickable \cup { shapeMap[u] : u \in DOMAIN shapeMap }
  /\ selected' = id
  /\ tweens' = IF selected # 0 /\ selected # id
               THEN StartTween(tweens, selected, "unsel") ELSE tweens
  /\ layer' = MoveToTop(MoveToTop(layer, TR), WM)
  /\ nodes' = Gc(nodes, layer', id, running, tweens', shapeMap)
  /\ UNCHANGED <<maxSteps, stack, cursor, batching, depth, nextId, shapeMap,
                 nextUuid, running, timers, color, toast>> /\ UNCHANGED announced /\ notices' = <<>>

\* studio.Shapes.getById(id): the node, 0 for null
GetById(uuid) == IF uuid \in DOMAIN shapeMap THEN shapeMap[uuid] ELSE 0

\* studio.Shapes.selectById(id)
SelectById(uuid) ==
  IF uuid \notin DOMAIN shapeMap
  THEN UNCHANGED <<maxSteps, stack, cursor, batching, depth, nodes, layer,
                   nextId, shapeMap, nextUuid, selected, running, tweens,
                   timers, color, toast>> /\ UNCHANGED announced /\ notices' = <<>>
  ELSE Select(shapeMap[uuid])

\* interaction.deselect(): Escape, or a click on the empty stage
Deselect ==
  /\ selected' = 0
  /\ tweens' = IF selected # 0 THEN StartTween(tweens, selected, "unsel")
               ELSE tweens
  /\ nodes' = Gc(nodes, layer, 0, running, tweens', shapeMap)
  /\ UNCHANGED <<maxSteps, stack, cursor, batching, depth, layer, nextId,
                 shapeMap, nextUuid, running, timers, color, toast>> /\ UNCHANGED announced /\ notices' = <<>>

\* shapes.duplicate(): the clone has the attrs of the selected node, a new
\* _id and no _publicId; the map is not touched
Duplicate ==
  IF selected = 0
  THEN /\ toast' = "Select a shape first"
       /\ UNCHANGED <<maxSteps, stack, cursor, batching, depth, nodes, layer,
                      nextId, shapeMap, nextUuid, selected, running, tweens,
                      timers, color>> /\ UNCHANGED announced /\ notices' = <<>>
  ELSE /\ nextId <= MaxId
       /\ LET id    == nextId
              clone == [nodes[selected] EXCEPT !.pub = NoPub, !.x = @ + 28,
                                               !.y = @ + 28, !.opa = 0]
              lay   == MoveToTop(MoveToTop(MoveToTop(AddChild(layer, id), WM), TR), WM)
              tw    == StartTween(StartTween(tweens, id, "dup"), selected, "unsel")
              ns    == Put(nodes, id, clone)
          IN /\ nextId' = id + 1
             /\ layer' = lay
             /\ tweens' = tw
             /\ selected' = id
             /\ HistorySave(ns, lay, shapeMap)
             /\ nodes' = Gc(ns, lay, id, running, tw, shapeMap)
       /\ UNCHANGED <<maxSteps, batching, depth, shapeMap, nextUuid, running,
                      timers, color, toast>> /\ UNCHANGED announced

\* shapes.alignCenter(): the tween towards the canvas centre is started, then
\* the scene is saved
AlignCenter ==
  IF selected = 0
  THEN /\ toast' = "Select a shape first"
       /\ UNCHANGED <<maxSteps, stack, cursor, batching, depth, nodes, layer,
                      nextId, shapeMap, nextUuid, selected, running, tweens,
                      timers, color>> /\ UNCHANGED announced /\ notices' = <<>>
  ELSE /\ tweens' = StartTween(tweens, selected, "align")
       /\ HistorySave(nodes, layer, shapeMap)
       /\ nodes' = Gc(nodes, layer, selected, running, tweens', shapeMap)
       /\ UNCHANGED <<maxSteps, batching, depth, layer, nextId, shapeMap,
                      nextUuid, selected, running, timers, color, toast>> /\ UNCHANGED announced

\* ------------------------------------------------------ getState / loadState
ForeignId == 100      \* an id that the caller of loadState() chose itself

\* export.getState().shapes: one item per child that is neither a
\* Transformer nor named 'watermark'
ItemOf(n) == [id |-> n.pub, type |-> n.cls, x |-> n.x, y |-> n.y,
              rot |-> n.rot, sx |-> n.sx, sy |-> n.sy, opa |-> n.opa,
              fill |-> n.fill, w |-> n.w, h |-> n.h]

RECURSIVE ItemsOf(_, _)
ItemsOf(ns, lay) ==
  IF lay = <<>> THEN <<>>
  ELSE LET n == ns[Head(lay)]
       IN IF n.cls = "Transformer" \/ n.name = "watermark"
          THEN ItemsOf(ns, Tail(lay))
          ELSE <<ItemOf(n)>> \o ItemsOf(ns, Tail(lay))

GetState == ItemsOf(nodes, layer)

\* a state whose shapes list names the same id twice
RepeatedItems ==
  LET item == [id |-> ForeignId, type |-> "Rect", x |-> 10, y |-> 10,
               rot |-> 0, sx |-> 100, sy |-> 100, opa |-> 100,
               fill |-> "c1", w |-> 4, h |-> 2]
  IN <<item, item>>

\* item.type.toLowerCase() as a key of the shape registry, "" if it is none
RegistryType(cls) ==
  CASE cls = "Rect" -> "rect" [] cls = "Line" -> "line" [] OTHER -> ""

\* the items loadState() does not skip and create() has a factory for
Loadable(item) == item.id # NoPub /\ RegistryType(item.type) # ""

\* the config loadState() builds from an item
ItemConfig(item) ==
  [x |-> item.x, y |-> item.y, rot |-> item.rot,
   sx |-> IF item.sx = 0 THEN 100 ELSE item.sx,
   sy |-> IF item.sy = 0 THEN 100 ELSE item.sy,
   opa |-> item.opa, fill |-> item.fill, w |-> item.w, h |-> item.h]

\* loadState(): one pass of json.shapes.forEach on the scene sc
LoadItem(sc, item) ==
  IF ~Loadable(item) THEN sc
  ELSE LET made == CreateShape(sc, RegistryType(item.type), ItemConfig(item))
           id   == sc.nextId
           cfg  == ItemConfig(item)
           node == [made.nodes[id] EXCEPT !.pub = item.id, !.opa = cfg.opa,
                                          !.sx = cfg.sx, !.sy = cfg.sy]
       IN [made EXCEPT !.nodes = [made.nodes EXCEPT ![id] = node],
                       !.shapeMap = Put(Drop(made.shapeMap, sc.nextUuid),
                                        item.id, id)]

RECURSIVE LoadItems(_, _)
LoadItems(sc, items) ==
  IF items = <<>> THEN sc
  ELSE LoadItems(LoadItem(sc, Head(items)), Tail(items))

\* studio.Export.loadState({shapes: items})
LoadState(items) ==
  LET k    == Len(SelectSeq(items, Loadable))
      tw0  == IF selected # 0 THEN StartTween(tweens, selected, "unsel")
              ELSE tweens
      sc0  == [nodes |-> StopAllNodes(nodes, running, layer),
               layer |-> <<WM, TR>>, shapeMap |-> shapeMap, tweens |-> tw0,
               nextId |-> nextId, nextUuid |-> nextUuid,
               stack |-> stack, cursor |-> cursor, notices |-> <<>>]
      sc   == LoadItems(sc0, items)
      lay  == MoveToTop(sc.layer, WM)
      h    == Saved([stack |-> sc.stack, cursor |-> sc.cursor,
                     notices |-> sc.notices], sc.nodes, lay, sc.shapeMap)
  IN /\ nextId + k - 1 <= MaxId
     /\ nextUuid + k - 1 <= MaxUuid
     /\ running' = NoRunning
     /\ announced' = StopAllEvents(announced, running, TRUE)
     /\ selected' = 0
     /\ layer' = lay
     /\ shapeMap' = sc.shapeMap
     /\ tweens' = sc.tweens
     /\ nextId' = sc.nextId
     /\ nextUuid' = sc.nextUuid
     /\ stack' = h.stack
     /\ cursor' = h.cursor
     /\ notices' = h.notices
     /\ toast' = "Loaded shapes"
     /\ nodes' = Gc(sc.nodes, lay, 0, NoRunning, sc.tweens, sc.shapeMap)
     /\ UNCHANGED <<maxSteps, batching, depth, timers, color>>

\* the argument of loadState(): json and json.shapes by the kind of
\* JavaScript value they are; items is the content of json.shapes when it is
\* an array
JsonOf(items) == [kind |-> "object", shapes |-> "array", items |-> items]

\* undefined, null, {} without shapes, {shapes: null}, {shapes: 'abc'} and
\* {shapes: {length: 0}}
InvalidJsons ==
  { [kind |-> k, shapes |-> "undefined", items |-> <<>>]
      : k \in {"undefined", "null"} }
  \cup { [kind |-> "object", shapes |-> v, items |-> <<>>]
          : v \in {"undefined", "null", "string", "object"} }

\* !v of a value of kind k that is not 0, NaN, '' or false
Falsy(k) == k \in {"undefined", "null"}

\* the test loadState() starts with; also the value loadState() returns
ValidState(json) ==
  ~(Falsy(json.kind) \/ Falsy(json.shapes) \/ json.shapes # "array")

\* loadState(json) as it would be without the test of its argument
LoadStateUnchecked(json) == LoadState(json.items)

\* studio.Export.loadState(json)
LoadStateJson(json) ==
  IF ~ValidState(json)
  THEN UNCHANGED <<maxSteps, stack, cursor, batching, depth, nodes, layer,
                   nextId, shapeMap, nextUuid, selected, running, tweens,
                   timers, color, toast>> /\ UNCHANGED announced /\ notices' = <<>>
  ELSE LoadState(json.items)

\* ------------------------------------------------- drag-draw of a shape
MinDrag == 6          \* smallest width and height endDrag() keeps
DragStarts == { [x |-> 10, y |-> 10] }
DragSizes == { [w |-> 2, h |-> 2], [w |-> 8, h |-> 6] }

\* drawing.startDrag('rect', pos)
StartDrag(pos) ==
  /\ nextId <= MaxId
  /\ tempShape' = nextId
  /\ nextId' = nextId + 1
  /\ layer' = AddChild(layer, nextId)
  /\ nodes' = Put(nodes, nextId,
                  NewNode("Rect", [fill |-> color, opa |-> 72,
                                   x |-> pos.x, y |-> pos.y]))
  /\ notices' = <<>>
  /\ UNCHANGED <<maxSteps, stack, cursor, batching, depth, shapeMap, nextUuid,
                 selected, running, tweens, timers, color, toast>> /\ UNCHANGED announced

\* drawing.moveDrag('rect', pos) with pos right of and below the start
MoveDrag(size) ==
  /\ nodes' = IF tempShape = 0 THEN nodes
              ELSE [nodes EXCEPT ![tempShape] = SetAttrs(@, size)]
  /\ notices' = <<>>
  /\ UNCHANGED <<maxSteps, stack, cursor, batching, depth, layer, nextId,
                 shapeMap, nextUuid, selected, running, tweens, timers, color,
                 toast, tempShape>> /\ UNCHANGED announced

\* drawing.endDrag('rect'): mouseup
EndDrag ==
  IF tempShape = 0
  THEN /\ notices' = <<>>
       /\ UNCHANGED <<maxSteps, stack, cursor, batching, depth, nodes, layer,
                      nextId, shapeMap, nextUuid, selected, running, tweens,
                      timers, color, toast, tempShape>> /\ UNCHANGED announced
  ELSE LET id == tempShape
           n  == nodes[id]
       IN /\ tempShape' = 0
          /\ IF n.w < MinDrag \/ n.h < MinDrag
             THEN /\ layer' = Without(layer, id)
                  /\ nodes' = GcReleased(nodes, layer', selected, running,
                                         tweens, shapeMap)
                  /\ notices' = <<>>
                  /\ UNCHANGED <<stack, cursor>>
             ELSE LET kept == ShiftToCenter([n EXCEPT !.opa = 100,
                                               !.scol = Shadow, !.sblur = 8,
                                               !.drag = TRUE])
                      ns   == [nodes EXCEPT ![id] = kept]
                  IN /\ layer' = MoveToTop(layer, WM)
                     /\ HistorySave(ns, layer', shapeMap)
                     /\ nodes' = GcReleased(ns, layer', selected, running,
                                            tweens, shapeMap)
          /\ UNCHANGED <<maxSteps, batching, depth, nextId, shapeMap, nextUuid,
                         selected, running, tweens, timers, color, toast>> /\ UNCHANGED announced

\* ------------------------------------------------------------- tools
\* the registered tools of the model: three built-in ones, 'image', and a
\* tool 'probe' that the caller registered with all five handlers, none of
\* which touches a service
ToolNames == {"select", "hand", "rect", "image", "probe"}
UnknownTool == "nosuch"

Handlers(tool) ==
  CASE tool = "select" -> {"onMousedown"}
    [] tool = "rect"   -> {"onMousedown", "onMousemove", "onMouseup"}
    [] tool = "image"  -> {"onActivate"}
    [] tool = "probe"  -> {"onActivate", "onDeactivate", "onMousedown",
                           "onMousemove", "onMouseup"}
    [] OTHER           -> {}

\* tool?.handler && tool.handler(...): the calls it makes
Called(tool, h) ==
  IF h \in Handlers(tool) THEN << [tool |-> tool, h |-> h] >> ELSE <<>>

\* a handler run that changes nothing outside the ToolRegistry and Drawing
Idle ==
  /\ notices' = <<>>
  /\ UNCHANGED <<maxSteps, stack, cursor, batching, depth, nodes, layer,
                 nextId, shapeMap, nextUuid, selected, running, tweens,
                 timers, color, toast>> /\ UNCHANGED announced

\* setActive(name) as it would be if the new tool were activated before the
\* old one is deactivated
SetActiveEarly(name) ==
  IF name \notin ToolNames
  THEN Idle /\ calls' = <<>> /\ UNCHANGED <<active, tempShape>>
  ELSE /\ calls' = Called(name, "onActivate") \o Called(active, "onDeactivate")
       /\ active' = name
       /\ IF active # name THEN Deselect ELSE Idle
       /\ UNCHANGED tempShape

\* tools.setActive(name)
SetActive(name) ==
  IF name \notin ToolNames
  THEN Idle /\ calls' = <<>> /\ UNCHANGED <<active, tempShape>>
  ELSE /\ calls' = Called(active, "onDeactivate") \o Called(name, "onActivate")
       /\ active' = name
       /\ IF active # name THEN Deselect ELSE Idle
       /\ UNCHANGED tempShape

\* stage 'mousedown' on the empty stage
Mousedown(pos) ==
  /\ calls' = Called(active, "onMousedown")
  /\ UNCHANGED active
  /\ CASE active = "rect"   -> StartDrag(pos)
       [] active = "select" -> Deselect /\ UNCHANGED tempShape
       [] OTHER             -> Idle /\ UNCHANGED tempShape

\* stage 'mousemove'
Mousemove(size) ==
  /\ calls' = Called(active, "onMousemove")
  /\ UNCHANGED active
  /\ IF active = "rect" THEN MoveDrag(size) ELSE Idle /\ UNCHANGED tempShape

\* stage 'mouseup'
Mouseup ==
  /\ calls' = Called(active, "onMouseup")
  /\ UNCHANGED active
  /\ IF active = "rect" THEN EndDrag ELSE Idle /\ UNCHANGED tempShape

\* -------------------------------------------------------- erase / clearAll
MaxTimers == 1        \* clearAll timeouts pending at once

\* shapes.erase(shape): eraser click on a shape, or deleteSelected()
Erase(id) ==
  /\ id \in Clickable \cup ({selected} \ {0})
  /\ running' = Drop(running, id)
  /\ announced' = StopEvents(announced, running, id)
  /\ tweens' = StartTween(tweens, id, "erase")
  /\ nodes' = Gc(StopNodes(nodes, running, layer, id), layer, selected,
                 running', tweens', shapeMap)
  /\ UNCHANGED <<maxSteps, stack, cursor, batching, depth, layer, nextId,
                 shapeMap, nextUuid, selected, timers, color, toast>> /\ notices' = <<>>

\* the layer's children that clearAll() fades out and destroys
ClearTargets(ns, lay) ==
  { i \in Range(lay) : i # TR /\ ns[i].name # "watermark" }

RECURSIVE StartTweens(_, _, _)
StartTweens(tw, ids, kind) ==
  IF ids = {} THEN tw
  ELSE LET i == CHOOSE j \in ids : TRUE
       IN StartTweens(StartTween(tw, i, kind), ids \ {i}, kind)

\* shapes.clearAll(), the user confirming the dialog
ClearAll ==
  /\ timers < MaxTimers
  /\ running' = NoRunning
  /\ announced' = StopAllEvents(announced, running, FALSE)
  /\ toast' = "All animations stopped"
  /\ tweens' = StartTweens(tweens, ClearTargets(nodes, layer), "clear")
  /\ timers' = timers + 1
  /\ nodes' = Gc(StopAllNodes(nodes, running, layer), layer, selected,
                 NoRunning, tweens', shapeMap)
  /\ UNCHANGED <<maxSteps, stack, cursor, batching, depth, layer, nextId,
                 shapeMap, nextUuid, selected, color>> /\ notices' = <<>>

\* the setTimeout callback of clearAll()
ClearTimer ==
  /\ depth = 0
  /\ timers > 0
  /\ timers' = timers - 1
  /\ selected' = 0
  /\ tweens' = IF selected # 0 THEN StartTween(tweens, selected, "unsel")
               ELSE tweens
  /\ nodes' = Gc(nodes, layer, 0, running, tweens', shapeMap)
  /\ HistorySave(nodes, layer, shapeMap)
  /\ UNCHANGED <<maxSteps, batching, depth, layer, nextId, shapeMap, nextUuid,
                 running, color, toast>> /\ UNCHANGED announced

\* a tween reaches its end: the end values of the attrs it still owns are
\* set, then its onFinish callback runs
TweenFinish(t) ==
  /\ depth = 0
  /\ t \in tweens
  /\ LET ends == TweenEnd(t.kind)
         ns0  == [nodes EXCEPT ![t.node] = SetAttrs(@, [k \in t.keys |-> ends[k]])]
         tw0  == tweens \ {t}
     IN CASE t.kind = "erase" ->
               \* onFinish of erase()
               LET sel == IF selected = t.node THEN 0 ELSE selected
                   tw  == IF selected = t.node
                          THEN StartTween(tw0, t.node, "unsel") ELSE tw0
                   pub == ns0[t.node].pub
                   sm  == IF pub # NoPub THEN Drop(shapeMap, pub) ELSE shapeMap
                   lay == Without(layer, t.node)
               IN /\ selected' = sel
                  /\ tweens' = tw
                  /\ shapeMap' = sm
                  /\ layer' = lay
                  /\ HistorySave(ns0, lay, sm)
                  /\ nodes' = Gc(ns0, lay, sel, running, tw, sm)
          [] t.kind = "clear" ->
               \* onFinish of clearAll(): s.destroy()
               /\ layer' = Without(layer, t.node)
               /\ tweens' = tw0
               /\ nodes' = Gc(ns0, layer', selected, running, tw0, shapeMap)
               /\ UNCHANGED <<selected, shapeMap, stack, cursor>> /\ notices' = <<>>
          [] OTHER ->
               /\ tweens' = tw0
               /\ nodes' = Gc(ns0, layer, selected, running, tw0, shapeMap)
               /\ UNCHANGED <<selected, shapeMap, layer, stack, cursor>> /\ notices' = <<>>
  /\ UNCHANGED <<maxSteps, batching, depth, nextId, nextUuid, running, timers,
                 color, toast>> /\ UNCHANGED announced

\* -------------------------------------------------------------- presets
Presets == {"pulse", "spin", "float", "rainbow", "shake", "bounce", "jello",
            "flash", "heartbeat", "rubberband", "swing", "wobble", "twinkle",
            "orbit", "wave", "spiral", "pop", "glitch", "pendulum", "throb"}

\* samples of the sinusoids of the presets at frame time t: sin and cos
Wave(t) == CASE t % 4 = 1 -> 1 [] t % 4 = 3 -> -1 [] OTHER -> 0
Cowave(t) == CASE t % 4 = 0 -> 1 [] t % 4 = 2 -> -1 [] OTHER -> 0
Abs(v) == IF v < 0 THEN -v ELSE v
Pct(v, p) == (v * p) \div 100
Rgb(t) == IF t % 2 = 1 THEN "rgb(127,237,17)" ELSE "rgb(237,17,127)"

\* the frame function of a preset at frame time t, on node n with state s
AnimFrame(type, n, s, t) ==
  CASE type = "pulse" ->
         [n EXCEPT !.sx = Pct(s.origScaleX, 100 + 9 * Wave(t)),
                   !.sy = Pct(s.origScaleY, 100 + 9 * Wave(t))]
    [] type = "spin" -> [n EXCEPT !.rot = s.origRot + 90 * t]
    [] type = "float" -> [n EXCEPT !.y = s.origY + 10 * Wave(t)]
    [] type = "rainbow" -> [n EXCEPT !.fill = Rgb(t)]
    [] type = "shake" -> [n EXCEPT !.x = s.origX + 4 * Wave(t)]
    [] type = "bounce" -> [n EXCEPT !.y = s.origY - 20 * Abs(Wave(t))]
    [] type = "jello" ->
         [n EXCEPT !.sx = Pct(s.origScaleX, 100 + 7 * Wave(t)),
                   !.sy = Pct(s.origScaleY, 100 - 5 * Wave(t))]
    [] type = "flash" ->
         [n EXCEPT !.opa = IF t % 2 = 0 THEN s.origOpacity
                           ELSE Pct(s.origOpacity, 40)]
    [] type = "heartbeat" ->
         [n EXCEPT !.sx = Pct(s.origScaleX, 100 + 15 * Abs(Wave(t))),
                   !.sy = Pct(s.origScaleY, 100 + 15 * Abs(Wave(t)))]
    [] type = "rubberband" ->
         [n EXCEPT !.sx = Pct(s.origScaleX, 100 + 18 * Abs(Wave(t))),
                   !.sy = Pct(s.origScaleY, 100 - 7 * Abs(Wave(t)))]
    [] type = "swing" -> [n EXCEPT !.rot = s.origRot + 15 * Wave(t)]
    [] type = "wobble" ->
         [n EXCEPT !.rot = s.origRot + 7 * Wave(t),
                   !.x = s.origX + 2 * Cowave(t)]
    [] type = "twinkle" ->
         [n EXCEPT !.opa = Pct(s.origOpacity, 82 + 18 * Abs(Wave(t))),
                   !.sx = Pct(s.origScaleX, 96 + 6 * Abs(Wave(t))),
                   !.sy = Pct(s.origScaleY, 96 + 6 * Abs(Wave(t)))]
    [] type = "orbit" ->
         [n EXCEPT !.x = s.origX + 18 * Cowave(t),
                   !.y = s.origY + 18 * Wave(t)]
    [] type = "wave" ->
         [n EXCEPT !.x = s.origX + 20 * Wave(t),
                   !.y = s.origY + 10 * Cowave(t)]
    [] type = "spiral" ->
         [n EXCEPT !.rot = s.origRot + 120 * t,
                   !.sx = Pct(s.origScaleX, 65 + 40 * Abs(Wave(t))),
                   !.sy = Pct(s.origScaleY, 65 + 40 * Abs(Wave(t)))]
    [] type = "pop" ->
         [n EXCEPT !.sx = Pct(s.origScaleX, 100 + 20 * Abs(Wave(t))),
                   !.sy = Pct(s.origScaleY, 100 + 20 * Abs(Wave(t)))]
    [] type = "glitch" ->
         IF t % 2 = 1
         THEN [n EXCEPT !.x = s.origX + 5, !.y = s.origY - 3, !.fill = "#ff0000"]
         ELSE [n EXCEPT !.x = s.origX, !.y = s.origY,
                        !.fill = IF s.origFill # NoFill THEN s.origFill ELSE n.fill]
    [] type = "pendulum" -> [n EXCEPT !.rot = s.origRot + 20 * Cowave(t)]
    [] type = "throb" ->
         [n EXCEPT !.sx = Pct(s.origScaleX, 100 + 4 * Abs(Wave(t))),
                   !.sy = Pct(s.origScaleY, 100 + 4 * Abs(Wave(t))),
                   !.sblur = IF HasFill(n) THEN 8 + 14 * Abs(Wave(t)) ELSE n.sblur,
                   !.scol = IF HasFill(n) THEN "var(--accent)" ELSE n.scol]

\* a preset added with animations.register(Custom, () => null): its factory
\* skips every shape
Custom == "skip"

\* a factory returning null: rainbow and glitch on a node without fill(),
\* the custom preset on every node
Declines(type, n) ==
  \/ type \in {"rainbow", "glitch"} /\ ~HasFill(n)
  \/ type = Custom

\* the state object apply() captures after the centre shift
Baseline(n, d) ==
  [dx |-> d.dx, dy |-> d.dy, origX |-> n.x, origY |-> n.y, origRot |-> n.rot,
   origScaleX |-> n.sx, origScaleY |-> n.sy, origOpacity |-> n.opa,
   origFill |-> IF HasFill(n) THEN n.fill ELSE NoFill,
   origShadowBlur |-> IF HasFill(n) THEN n.sblur ELSE 0,
   origShadowColor |-> IF HasFill(n) THEN n.scol ELSE "black",
   origOffsetX |-> n.ox - d.dx, origOffsetY |-> n.oy - d.dy]

\* apply(type) with node id selected, on the heap ns and the records run:
\* the new {nodes, running}
Applied(ns, run, lay, id, type) ==
  LET wasOn == id \in DOMAIN run
      ns0   == StopNodes(ns, run, lay, id)
      run0  == Drop(run, id)
      d     == ShiftDelta(ns0[id])
      n1    == ShiftToCenter(ns0[id])
  IN IF wasOn /\ run[id].type = type
     THEN [nodes |-> ns0, running |-> run0]
     ELSE IF Declines(type, n1)
     THEN [nodes |-> [ns0 EXCEPT ![id] = n1], running |-> run0]
     ELSE [nodes |-> [ns0 EXCEPT ![id] = n1],
           running |-> Put(run0, id, [type |-> type, state |-> Baseline(n1, d)])]

\* the events of that apply(type): the stop of the record the node had, and
\* the start of the new one unless the call toggled off or was declined
AppliedEvents(ann, ns, run, lay, id, type) ==
  LET wasOn == id \in DOMAIN run
      ann0  == StopEvents(ann, run, id)
      n1    == ShiftToCenter(StopNodes(ns, run, lay, id)[id])
  IN IF wasOn /\ run[id].type = type THEN ann0
     ELSE IF Declines(type, n1) THEN ann0
     ELSE Announce(ann0, id, "start", type)

\* studio.Animations.apply(type)
Apply(type) ==
  IF selected = 0
  THEN /\ toast' = "Select a shape first"
       /\ UNCHANGED <<maxSteps, stack, cursor, batching, depth, nodes, layer,
                      nextId, shapeMap, nextUuid, selected, running, tweens,
                      timers, color>> /\ UNCHANGED announced /\ notices' = <<>>
  ELSE /\ nodes' = Applied(nodes, running, layer, selected, type).nodes
       /\ running' = Applied(nodes, running, layer, selected, type).running
       /\ announced' = AppliedEvents(announced, nodes, running, layer, selected,
                                     type)
       /\ UNCHANGED <<maxSteps, stack, cursor, batching, depth, layer, nextId,
                      shapeMap, nextUuid, selected, tweens, timers, color,
                      toast>> /\ notices' = <<>>

\* PANEL_ORDER
PanelOrder == <<"pulse", "spin", "float", "rainbow", "shake", "bounce", "jello",
                "flash", "heartbeat", "rubberband", "swing", "wobble",
                "twinkle", "orbit", "wave", "spiral", "pop", "glitch",
                "pendulum", "throb">>

\* the shapes animateAll() walks, bottom first
AnimateTargets ==
  SelectSeq(layer, LAMBDA i : i # TR /\ nodes[i].drag
                              /\ nodes[i].name # "watermark")

\* shapes.forEach((shape, i) => { select(shape); apply(types[i % 20]) }) from
\* index k on, on the scene sc = {nodes, running, selected, tweens, announced}
RECURSIVE AnimateFrom(_, _, _)
AnimateFrom(sc, shapes, k) ==
  IF k > Len(shapes) THEN sc
  ELSE LET id == shapes[k]
           tw == IF sc.selected # 0 /\ sc.selected # id
                 THEN StartTween(sc.tweens, sc.selected, "unsel")
                 ELSE sc.tweens
           ty == PanelOrder[((k - 1) % Len(PanelOrder)) + 1]
           ap == Applied(sc.nodes, sc.running, layer, id, ty)
           an == AppliedEvents(sc.announced, sc.nodes, sc.running, layer, id, ty)
       IN AnimateFrom([nodes |-> ap.nodes, running |-> ap.running,
                       selected |-> id, tweens |-> tw, announced |-> an],
                      shapes, k + 1)

\* studio.Animations.animateAll()
AnimateAll ==
  LET sc == AnimateFrom([nodes |-> nodes, running |-> running,
                         selected |-> selected, tweens |-> tweens,
                         announced |-> announced],
                        AnimateTargets, 1)
  IN /\ running' = sc.running
     /\ announced' = sc.announced
     /\ selected' = sc.selected
     /\ tweens' = sc.tweens
     /\ layer' = IF AnimateTargets = <<>> THEN layer
                 ELSE MoveToTop(MoveToTop(layer, TR), WM)
     /\ toast' = "Animating shapes"
     /\ nodes' = Gc(sc.nodes, layer', sc.selected, sc.running, sc.tweens,
                    shapeMap)
     /\ notices' = <<>>
     /\ UNCHANGED <<maxSteps, stack, cursor, batching, depth, nextId, shapeMap,
                    nextUuid, timers, color>>

\* one frame of the Konva.Animation of a running record
Frame(id, t) ==
  /\ depth = 0
  /\ id \in DOMAIN running
  /\ nodes' = [nodes EXCEPT ![id] = AnimFrame(running[id].type, @, running[id].state, t)]
  /\ UNCHANGED <<maxSteps, stack, cursor, batching, depth, layer, nextId,
                 shapeMap, nextUuid, selected, running, tweens, timers, color, toast>> /\ UNCHANGED announced /\ notices' = <<>>

\* studio.Animations.stopFor(shapeId)
StopForShape(id) ==
  IF id \notin DOMAIN running
  THEN UNCHANGED <<maxSteps, stack, cursor, batching, depth, nodes, layer,
                   nextId, shapeMap, nextUuid, selected, running, tweens,
                   timers, color, toast>> /\ UNCHANGED announced /\ notices' = <<>>
  ELSE /\ running' = Drop(running, id)
       /\ announced' = StopEvents(announced, running, id)
       /\ nodes' = Gc(StopNodes(nodes, running, layer, id), layer, selected,
                      running', tweens, shapeMap)
       /\ UNCHANGED <<maxSteps, stack, cursor, batching, depth, layer, nextId,
                      shapeMap, nextUuid, selected, tweens, timers, color,
                      toast>> /\ notices' = <<>>

\* studio.Animations.stopAll(silent)
StopAll(silent) ==
  /\ running' = NoRunning
  /\ announced' = StopAllEvents(announced, running, silent)
  /\ toast' = IF silent THEN toast ELSE "All animations stopped"
  /\ nodes' = Gc(StopAllNodes(nodes, running, layer), layer, selected,
                 NoRunning, tweens, shapeMap)
  /\ UNCHANGED <<maxSteps, stack, cursor, batching, depth, layer, nextId,
                 shapeMap, nextUuid, selected, tweens, timers, color>> /\ notices' = <<>>

\* --------------------------------------------------------------- EventBus
\* the handlers of one event. A handler is {id, once, kind}: once tells
\* that it is the wrapper once() made around fn; fn of kind "reemit" emits
\* the same event again the first time it is called, fn of kind "plain"
\* calls nothing
MaxHandlers == 2
HandlerKinds == {"plain", "reemit"}

\* Set.delete(handler)
Removed(ls, id) == SelectSeq(ls, LAMBDA h : h.id # id)

\* emit(event) on the bus {ls, inv}: Set.forEach calls every handler that is
\* in the set when its turn comes, once; seen are the handlers this walk
\* has called. The wrapper of once() calls fn, then off(event, wrapper)
RECURSIVE EmitFrom(_, _)
EmitFrom(bus, seen) ==
  LET rest == SelectSeq(bus.ls, LAMBDA h : h.id \notin seen)
  IN IF rest = <<>> THEN bus
     ELSE LET h      == Head(rest)
              called == [bus EXCEPT !.inv[h.id].n = @ + 1]
              ran    == IF h.kind = "reemit" /\ bus.inv[h.id].n = 0
                        THEN EmitFrom(called, {})
                        ELSE called
              after  == IF h.once THEN [ran EXCEPT !.ls = Removed(@, h.id)]
                        ELSE ran
          IN EmitFrom(after, seen \cup {h.id})

\* bus.on(event, fn) and bus.once(event, fn), fn a new function
Subscribe(once, kind) ==
  /\ Cardinality(DOMAIN invoked) < MaxHandlers
  /\ LET id == Cardinality(DOMAIN invoked) + 1
     IN /\ listeners' = Append(listeners, [id |-> id, once |-> once, kind |-> kind])
        /\ invoked' = Put(invoked, id, [once |-> once, n |-> 0])

\* bus.off(event, fn), or the unsubscribe function on() and once() return
Off(id) ==
  /\ listeners' = Removed(listeners, id)
  /\ UNCHANGED invoked

\* bus.emit(event)
Emit ==
  LET bus == EmitFrom([ls |-> listeners, inv |-> invoked], {})
  IN /\ listeners' = bus.ls
     /\ invoked' = bus.inv

\* ----------------------------------------------------------- specifications
ScenePresets == {"float", "rainbow"}

\* a run of handler op in a specification that the heap and the identity
\* map bound
Free(op, A) ==
  /\ A /\ last' = op
  /\ UNCHANGED <<steps, tempShape, active, calls, listeners, invoked>>

\* a run of handler op in a specification of behaviours of at most b runs
Step(b, op, A) ==
  /\ steps < b /\ A /\ last' = op /\ steps' = steps + 1
  /\ UNCHANGED <<tempShape, active, calls, listeners, invoked>>

\* a run of setActive or of a stage event of the ToolRegistry, whose tool
\* handlers drive Drawing
Tool(b, op, A) ==
  /\ steps < b /\ A /\ last' = op /\ steps' = steps + 1
  /\ UNCHANGED <<listeners, invoked>>

\* a run of a method of the EventBus, which touches no service
Bus(b, op, A) ==
  /\ steps < b /\ A /\ last' = op /\ steps' = steps + 1
  /\ Idle
  /\ UNCHANGED <<tempShape, active, calls>>

\* the history on its own: save, undo, redo, batch over created shapes
NextH ==
  \/ Free("save", Save)
  \/ Free("undo", Undo)
  \/ Free("redo", Redo)
  \/ Free("batch", BatchBegin)
  \/ Free("batchEnd", BatchEnd)
  \/ \E cfg \in CreateConfigs : Free("create", Create("rect", cfg))

SpecH == Init /\ [][NextH]_vars

\* save() calls only, on a fresh history: steps counts them
NextSave ==
  \/ Step(MaxSaves, "save", Save)
  \/ \E ty \in ShapeTypes, cfg \in CreateConfigs :
       Step(MaxSaves, "create", Create(ty, cfg))

SpecSave == Init /\ [][NextSave]_vars

InitScene == Init /\ maxSteps = MaxCapacity

\* animations against the history
NextA ==
  \/ Step(MaxOpsA, "save", Save)
  \/ Step(MaxOpsA, "undo", Undo)
  \/ Step(MaxOpsA, "redo", Redo)
  \/ \E ty \in ShapeTypes, cfg \in CreateConfigs :
       Step(MaxOpsA, "create", Create(ty, cfg))
  \/ \E i \in DOMAIN nodes : Step(MaxOpsA, "select", Select(i))
  \/ \E ty \in ScenePresets : Step(MaxOpsA, "apply", Apply(ty))
  \/ \E i \in DOMAIN nodes, t \in 1..MaxTime : Step(MaxOpsA, "frame", Frame(i, t))
  \/ \E i \in DOMAIN running : Step(MaxOpsA, "stopForShape", StopForShape(i))

SpecA == InitScene /\ [][NextA]_vars

\* animations against the delayed destruction of clearAll(): stopFor is
\* called with every node id, running or not
MaxOpsS == 7

NextStop ==
  \/ \E cfg \in CreateConfigs : Step(MaxOpsS, "create", Create("rect", cfg))
  \/ \E i \in DOMAIN nodes : Step(MaxOpsS, "select", Select(i))
  \/ Step(MaxOpsS, "apply", Apply("float"))
  \/ \E i \in DOMAIN nodes, t \in 1..MaxTime : Step(MaxOpsS, "frame", Frame(i, t))
  \/ Step(MaxOpsS, "clearAll", ClearAll)
  \/ Step(MaxOpsS, "clearTimer", ClearTimer)
  \/ \E t \in tweens : Step(MaxOpsS, "tweenFinish", TweenFinish(t))
  \/ \E i \in DOMAIN nodes : Step(MaxOpsS, "stopForShape", StopForShape(i))

SpecStop == InitScene /\ [][NextStop]_vars

\* the identity-keyed calls of studio.Shapes, with ids the map holds and
\* ids it does not hold (never issued, released by erase(), foreign)
MaxOpsI == 5
Eids == 1..MaxUuid \cup {ForeignId}

NextId ==
  \/ \E cfg \in CreateConfigs : Step(MaxOpsI, "create", Create("rect", cfg))
  \/ \E i \in DOMAIN nodes : Step(MaxOpsI, "erase", Erase(i))
  \/ \E t \in tweens : Step(MaxOpsI, "tweenFinish", TweenFinish(t))
  \/ \E u \in DOMAIN shapeMap : Step(MaxOpsI, "selectById", SelectById(u))
  \/ \E u \in Eids \ DOMAIN shapeMap :
       Step(MaxOpsI, "selectByIdAbsent", SelectById(u))
  \/ \E u \in DOMAIN shapeMap, p \in UpdateProps :
       Step(MaxOpsI, "updateById", UpdateById(u, p))
  \/ \E u \in Eids \ DOMAIN shapeMap, p \in UpdateProps :
       Step(MaxOpsI, "updateByIdAbsent", UpdateById(u, p))

SpecId == InitScene /\ [][NextId]_vars

\* the tool registry on its own: tool changes and stage events
MaxOpsT == 5

NextTools ==
  \/ \E name \in ToolNames : Tool(MaxOpsT, "setActive", SetActive(name))
  \/ Tool(MaxOpsT, "setActiveUnknown", SetActive(UnknownTool))
  \/ \E pos \in DragStarts : Tool(MaxOpsT, "mousedown", Mousedown(pos))
  \/ \E size \in DragSizes : Tool(MaxOpsT, "mousemove", Mousemove(size))
  \/ Tool(MaxOpsT, "mouseup", Mouseup)

SpecTools == InitScene /\ [][NextTools]_vars

\* what the entries of create() and alignCenter() hold, against the tweens
\* these handlers start
MaxOpsE == 6

NextE ==
  \/ Step(MaxOpsE, "save", Save)
  \/ Step(MaxOpsE, "undo", Undo)
  \/ Step(MaxOpsE, "redo", Redo)
  \/ \E cfg \in CreateConfigs : Step(MaxOpsE, "create", Create("rect", cfg))
  \/ \E i \in DOMAIN nodes : Step(MaxOpsE, "select", Select(i))
  \/ Step(MaxOpsE, "alignCenter", AlignCenter)
  \/ \E t \in tweens : Step(MaxOpsE, "tweenFinish", TweenFinish(t))

SpecE == InitScene /\ [][NextE]_vars

\* batches whose fn returns and batches whose fn throws
MaxOpsB == 6

NextBatch ==
  \/ Step(MaxOpsB, "save", Save)
  \/ Step(MaxOpsB, "undo", Undo)
  \/ \E cfg \in CreateConfigs : Step(MaxOpsB, "create", Create("rect", cfg))
  \/ Step(MaxOpsB, "batch", BatchBegin)
  \/ Step(MaxOpsB, "batchEnd", BatchEnd)
  \/ Step(MaxOpsB, "batchThrow", BatchThrow)

SpecBatch == Init /\ [][NextBatch]_vars

\* loadState() with arguments it accepts and arguments it refuses, on scenes
\* with a selection and a running animation
MaxOpsL == 5

NextLoad ==
  \/ \E cfg \in CreateConfigs : Step(MaxOpsL, "create", Create("rect", cfg))
  \/ \E i \in DOMAIN nodes : Step(MaxOpsL, "select", Select(i))
  \/ Step(MaxOpsL, "apply", Apply("float"))
  \/ \E i \in DOMAIN nodes, t \in 1..MaxTime : Step(MaxOpsL, "frame", Frame(i, t))
  \/ Step(MaxOpsL, "roundTrip", LoadStateJson(JsonOf(GetState)))
  \/ \E json \in InvalidJsons :
       Step(MaxOpsL, "loadStateInvalid", LoadStateJson(json))

SpecLoad == InitScene /\ [][NextLoad]_vars

\* the animation events under every way a record ends: toggle, switch,
\* stopAll, erase, undo
MaxOpsV == 5

NextAnim ==
  \/ Step(MaxOpsV, "save", Save)
  \/ Step(MaxOpsV, "undo", Undo)
  \/ \E ty \in ShapeTypes, cfg \in CreateConfigs :
       Step(MaxOpsV, "create", Create(ty, cfg))
  \/ \E i \in DOMAIN nodes : Step(MaxOpsV, "select", Select(i))
  \/ \E ty \in ScenePresets : Step(MaxOpsV, "apply", Apply(ty))
  \/ \E i \in DOMAIN nodes, t \in 1..MaxTime : Step(MaxOpsV, "frame", Frame(i, t))
  \/ \E i \in DOMAIN nodes : Step(MaxOpsV, "erase", Erase(i))
  \/ \E t \in tweens : Step(MaxOpsV, "tweenFinish", TweenFinish(t))
  \/ \E silent \in BOOLEAN : Step(MaxOpsV, "stopAll", StopAll(silent))

SpecAnim == InitScene /\ [][NextAnim]_vars

\* the event bus on its own
MaxOpsBus == 5

NextBus ==
  \/ \E once \in BOOLEAN, kind \in HandlerKinds :
       Bus(MaxOpsBus, "subscribe", Subscribe(once, kind))
  \/ \E id \in DOMAIN invoked : Bus(MaxOpsBus, "off", Off(id))
  \/ Bus(MaxOpsBus, "emit", Emit)

SpecBus == InitScene /\ [][NextBus]_vars

\* every handler and callback of the model
Next ==
  \/ Step(MaxOps, "save", Save)
  \/ Step(MaxOps, "undo", Undo)
  \/ Step(MaxOps, "redo", Redo)
  \/ Step(MaxOps, "batch", BatchBegin)
  \/ Step(MaxOps, "batchEnd", BatchEnd)
  \/ \E ty \in ShapeTypes, cfg \in CreateConfigs :
       Step(MaxOps, "create", Create(ty, cfg))
  \/ \E u \in DOMAIN shapeMap, p \in UpdateProps :
       Step(MaxOps, "updateById", UpdateById(u, p))
  \/ \E i \in DOMAIN nodes : Step(MaxOps, "select", Select(i))
  \/ Step(MaxOps, "deselect", Deselect)
  \/ Step(MaxOps, "duplicate", Duplicate)
  \/ Step(MaxOps, "roundTrip", LoadState(GetState))
  \/ Step(MaxOps, "loadState", LoadState(RepeatedItems))
  \/ \E i \in DOMAIN nodes : Step(MaxOps, "erase", Erase(i))
  \/ Step(MaxOps, "clearAll", ClearAll)
  \/ Step(MaxOps, "clearTimer", ClearTimer)
  \/ \E t \in tweens : Step(MaxOps, "tweenFinish", TweenFinish(t))
  \/ \E ty \in ScenePresets : Step(MaxOps, "apply", Apply(ty))
  \/ Step(MaxOps, "applyCustom", Apply(Custom))
  \/ Step(MaxOps, "animateAll", AnimateAll)
  \/ \E name \in {"select", "rect"} : Tool(MaxOps, "setActive", SetActive(name))
  \/ \E pos \in DragStarts : Tool(MaxOps, "mousedown", Mousedown(pos))
  \/ \E size \in DragSizes : Tool(MaxOps, "mousemove", Mousemove(size))
  \/ Tool(MaxOps, "mouseup", Mouseup)
  \/ \E i \in DOMAIN nodes, t \in 1..MaxTime : Step(MaxOps, "frame", Frame(i, t))
  \/ \E i \in DOMAIN running : Step(MaxOps, "stopForShape", StopForShape(i))
  \/ \E silent \in BOOLEAN : Step(MaxOps, "stopAll", StopAll(silent))

Spec == InitScene /\ [][Next]_vars

\* ------------------------------------------------------------- properties
Min(a, b) == IF a < b THEN a ELSE b

\* shapes.getById(uuid) returns a node of the scene
Resolves(u) ==
  /\ u \in DOMAIN shapeMap
  /\ shapeMap[u] \in Range(layer)
  /\ shapeMap[u] \in DOMAIN nodes

\* a step of undo() or redo() that restored an entry
Restores == last' \in {"undo", "redo"} /\ cursor' # cursor

\* a step of a handler that calls save() while no batch suppresses it, or
\* that is the save() of a batch
SavingStep ==
  \/ ~batching /\ last' \in {"save", "create", "updateById", "clearTimer",
                            "duplicate", "loadState", "roundTrip"}
  \/ last' = "batchEnd"

\* the entries of the stack below its newest one
Body(st) == SubSeq(st, 1, Len(st) - 1)

\* the entries save() keeps: stack[0 .. cursor]
Kept == SubSeq(stack, 1, cursor + 1)

\* the entries a save() may leave below the one it pushes: the kept ones,
\* less the oldest when the capacity is exceeded
KeptOrEvicted == IF Kept = <<>> THEN {Kept} ELSE {Kept, Tail(Kept)}

\* C1: after an undo() or redo() has restored an entry, every external id
\* that resolved when the entry was saved resolves again, to a node whose
\* attributes are attributes the entry captured.
C1_IdsResolveAfterRestore ==
  [][Restores =>
       \A u \in DOMAIN stack'[cursor' + 1].uuidMap :
          /\ Resolves(u)'
          /\ ToObject(nodes'[shapeMap'[u]]) \in Range(stack'[cursor' + 1].json)]_vars

\* C2: once the stack holds an entry, 0 <= cursor < stack.length; canUndo()
\* is cursor > 0 and canRedo() is cursor < stack.length - 1.
C2_CursorInRange ==
  stack # <<>> =>
    /\ 0 <= cursor
    /\ cursor < Len(stack)
    /\ canUndo <=> cursor > 0
    /\ canRedo <=> cursor < Len(stack) - 1

\* the stack is at capacity and an undo has moved the cursor to its oldest
\* entry
C2_Witness ==
  /\ maxSteps = 2
  /\ nextUuid = 3
  /\ last = "undo"
  /\ cursor = 0
  /\ Len(stack) = 2
  /\ canRedo
  /\ ~canUndo

\* the shapes of a serialized layer: its draggable children, bottom first
Shapes(json) == SelectSeq(json, LAMBDA o : o.drag)

\* C3: batch(fn) whose fn calls k >= 1 saving mutations adds one entry in
\* total, and one undo() after it restores the scene of the entry that was
\* current before the batch.
C3_BatchIsOneUndoStep ==
  [][/\ batching /\ last' # "batchEnd" => stack' = stack
     /\ last' = "batchEnd" => Body(stack') \in KeptOrEvicted
     /\ ( /\ last = "batchEnd" /\ depth = 0 /\ last' = "undo" /\ cursor >= 1
          /\ Cardinality(DOMAIN stack[cursor + 1].uuidMap)
               > Cardinality(DOMAIN stack[cursor].uuidMap) )
        => /\ cursor' = cursor - 1
           /\ Shapes(LayerJson(nodes', layer')) = Shapes(stack[cursor].json)]_vars

\* C8: N save() calls on a fresh history of capacity C >= 1, with no batch
\* and no undo between them, leave min(N, C) entries and the cursor at
\* min(N, C) - 1.
C8_SavesFillToCapacity ==
  /\ Len(stack) = Min(steps, maxSteps)
  /\ cursor = Min(steps, maxSteps) - 1

\* more saves than the capacity, for a capacity that keeps several entries
C8_Witness ==
  /\ maxSteps = 2
  /\ steps = maxSteps + 2
  /\ Len(stack) = 2
  /\ stack[1] # stack[2]

\* C9: the stack never holds more than maxSteps entries; a save() that would
\* exceed it evicts the oldest entry only, keeps the order of the others and
\* leaves the cursor on the entry it pushed.
C9_OldestEvicted ==
  [][/\ Len(stack') <= maxSteps
     /\ (SavingStep /\ Len(Kept) = maxSteps) =>
          /\ Len(stack') = maxSteps
          /\ Body(stack') = Tail(Kept)
          /\ stack'[Len(stack')] = Snapshot(nodes', layer', shapeMap')
          /\ cursor' = Len(stack') - 1]_vars

\* a history of capacity 1 after the second of two saving creates
C9_Witness ==
  /\ maxSteps = 1
  /\ last = "create"
  /\ ~batching
  /\ nextUuid = 3
  /\ Len(stack) = 1
  /\ cursor = 0
  /\ DOMAIN stack[1].uuidMap = {1, 2}

\* C10: a save() after an undo() discards the entries after the cursor
\* before it pushes; canRedo() is then false, and a redo() reports 'Nothing
\* to redo' and changes neither the scene nor the cursor nor the stack.
C10_SaveDropsRedo ==
  [][/\ (SavingStep /\ canRedo) =>
          /\ Body(stack') \in KeptOrEvicted
          /\ stack'[Len(stack')] = Snapshot(nodes', layer', shapeMap')
          /\ ~canRedo'
     /\ (last' = "redo" /\ ~canRedo) =>
          /\ toast' = "Nothing to redo"
          /\ UNCHANGED <<stack, cursor, nodes, layer, shapeMap, selected,
                         running, tweens>>]_vars

\* a refused redo() on a stack whose newest entry was saved after an undo
\* had emptied the identity map, in place of the entry a create had pushed
C10_Witness ==
  /\ last = "redo"
  /\ toast = "Nothing to redo"
  /\ ~batching
  /\ maxSteps > Len(stack)
  /\ Len(stack) = 2
  /\ cursor = 1
  /\ nextUuid = 2
  /\ DOMAIN stack[2].uuidMap = {}

\* the identity map and the _publicId of the nodes of the scene agree
MapExact ==
  /\ \A u \in DOMAIN shapeMap : Resolves(u) /\ nodes[shapeMap[u]].pub = u
  /\ \A i \in Range(layer) :
       nodes[i].pub # NoPub =>
         nodes[i].pub \in DOMAIN shapeMap /\ shapeMap[nodes[i].pub] = i

\* C4: after any save(), undo() or redo() the identity map holds exactly the
\* external ids carried by the nodes of the scene: none maps to a destroyed
\* node, none is carried by two nodes.
C4_MapMatchesScene ==
  [][(SavingStep \/ Restores \/ stack' # stack) => MapExact']_vars

\* the values node n had before the apply() that captured state s
BaselineOf(n, s) ==
  [n EXCEPT !.x = s.origX - s.dx, !.y = s.origY - s.dy,
            !.ox = s.origOffsetX, !.oy = s.origOffsetY,
            !.rot = s.origRot, !.sx = s.origScaleX, !.sy = s.origScaleY,
            !.opa = s.origOpacity,
            !.fill = IF HasFill(n) THEN s.origFill ELSE n.fill,
            !.sblur = IF HasFill(n) THEN s.origShadowBlur ELSE n.sblur,
            !.scol = IF HasFill(n) THEN s.origShadowColor ELSE n.scol]

\* C5: an entry saved while an animation runs on a node stores the node's
\* pre-animation baseline, never the values the frames have written.
C5_EntriesHoldBaseline ==
  [][(SavingStep \/ stack' # stack) =>
       \A p \in 1..Len(layer') :
          layer'[p] \in DOMAIN running' =>
            stack'[cursor' + 1].json[p]
              = ToObject(BaselineOf(nodes'[layer'[p]], running'[layer'[p]].state))]_vars

\* C6: stopForShape on a node of the scene that an accepted apply(T) and any
\* number of frames have animated leaves x, y, rotation, scale, opacity,
\* fill, shadow and offset at their values before the apply(T).
C6_StopRestoresBaseline ==
  [][\A i \in DOMAIN running :
        (last' = "stopForShape" /\ i \notin DOMAIN running' /\ i \in Range(layer'))
          => nodes'[i] = BaselineOf(nodes[i], running[i].state)]_vars

\* a fill that only a frame of 'rainbow' writes
FrameFills == { Rgb(t) : t \in 1..MaxTime }

\* C7: an undo() or redo() that succeeds while animations run leaves no
\* animation record, and every node of the restored scene has the values of
\* the restored entry, not values that animation frames produced.
C7_RestoreDuringAnimation ==
  [][(Restores /\ running # NoRunning) =>
       /\ running' = NoRunning
       /\ \A i \in Range(layer') \ {WM, TR} :
            /\ ToObject(nodes'[i]) \in Range(stack'[cursor' + 1].json)
            /\ nodes'[i].fill \notin FrameFills]_vars

\* the shapes of the scene: what getState() lists
ShapeNodes == { i \in Range(layer) :
                  nodes[i].cls # "Transformer" /\ nodes[i].name # "watermark" }

\* node i carries an external id that getById resolves to it
Carries(i) ==
  /\ nodes[i].pub # NoPub
  /\ nodes[i].pub \in DOMAIN shapeMap
  /\ shapeMap[nodes[i].pub] = i

\* C11: every shape node that a creation path (shapes.create, duplicate, ...)
\* puts into the scene has an external id that getById resolves to it, and
\* keeps it for as long as it is in the scene.
C11_EveryShapeHasEid ==
  [][\A i \in ShapeNodes' :
        ( \/ i \notin Range(layer) /\ last' \in {"create", "duplicate"}
          \/ i \in Range(layer) /\ Carries(i) )
        => Carries(i)']_vars

\* C12: at most one node of the scene carries a given external id, and
\* the id resolves to that node: also after a loadState() whose list repeats
\* an id and after the rebinding of undo() / redo().
C12_OneNodePerEid ==
  \A i \in Range(layer) :
     nodes[i].pub # NoPub =>
       /\ \A j \in Range(layer) : nodes[j].pub = nodes[i].pub => j = i
       /\ nodes[i].pub \in DOMAIN shapeMap => shapeMap[nodes[i].pub] = i

\* C13: when the tween of erase() or of clearAll() has destroyed a node, the
\* node's external id is no longer in the identity map.
C13_DestroyedIdReleased ==
  [][last' = "tweenFinish" =>
       \A u \in DOMAIN shapeMap :
          (shapeMap[u] \in Range(layer) /\ shapeMap[u] \notin Range(layer'))
            => u \notin DOMAIN shapeMap']_vars

\* C14: apply(B) on a node that runs A # B leaves one record for the node,
\* of type B, whose baseline is the node's values from before A started.
C14_SwitchKeepsBaseline ==
  [][\A i \in DOMAIN running :
        (last' = "apply" /\ selected = i /\ i \in DOMAIN running')
          => /\ running'[i].type # running[i].type
             /\ BaselineOf(nodes[i], running'[i].state)
                  = BaselineOf(nodes[i], running[i].state)]_vars

\* C15: apply(A) on a node that runs A stops the animation, puts the node
\* back to the captured baseline and leaves no record for the node.
C15_ToggleRestores ==
  [][\A i \in DOMAIN running :
        (last' = "apply" /\ selected = i /\ i \in Range(layer)
         /\ (i \notin DOMAIN running' \/ running'[i].type = running[i].type))
          => /\ i \notin DOMAIN running'
             /\ nodes'[i] = BaselineOf(nodes[i], running[i].state)]_vars

\* C16: a mutating operation on a node (updateById, erase, ...) stops the
\* animation running on it, baseline restored and record removed, before it
\* changes the node and saves.
C16_MutationStopsAnimation ==
  [][\A i \in DOMAIN running :
        (last' \in {"updateById", "erase"} /\ nodes'[i] # nodes[i])
          => i \notin DOMAIN running']_vars

\* what C17 compares of a getState() item
Placement(item) == [id |-> item.id, type |-> item.type, x |-> item.x,
                    y |-> item.y, rot |-> item.rot, sx |-> item.sx,
                    sy |-> item.sy, opa |-> item.opa]

\* C17: loadState(getState()) is a round trip: the scene then has one shape
\* for every item getState() reported, with the same id, type, position,
\* rotation, scale and opacity, and getById resolves each id to its shape.
C17_RoundTrip ==
  [][last' = "roundTrip" =>
       /\ Len(GetState') = Len(GetState)
       /\ \A k \in 1..Len(GetState) :
            \E i \in ShapeNodes' :
               /\ Placement(ItemOf(nodes'[i])) = Placement(GetState[k])
               /\ Carries(i)']_vars

\* C18: undo() at cursor <= 0 and redo() at cursor >= length - 1 leave the
\* cursor, the stack, the scene nodes, the identity map and the running
\* animations as they were and show the toast 'Nothing to undo' /
\* 'Nothing to redo'.
C18_RefusedUndoRedo ==
  [][/\ (last' = "undo" /\ cursor <= 0) =>
           /\ toast' = "Nothing to undo"
           /\ UNCHANGED <<cursor, stack, nodes, layer, shapeMap, running>>
     /\ (last' = "redo" /\ cursor >= Len(stack) - 1) =>
           /\ toast' = "Nothing to redo"
           /\ UNCHANGED <<cursor, stack, nodes, layer, shapeMap, running>>]_vars

\* an undo() was refused while an animation was running
C18_Witness ==
  /\ last = "undo"
  /\ toast = "Nothing to undo"
  /\ cursor <= 0
  /\ running # NoRunning

\* C19: apply() of a preset whose factory declines the node is a silent
\* no-op: no animation record is created and every attribute of the node,
\* x, y, offsetX and offsetY included, is what it was before the call.
C19_DeclinedApplyIsNoOp ==
  [][(last' = "applyCustom" /\ selected # 0 /\ selected \notin DOMAIN running)
       => /\ running' = running
          /\ nodes'[selected] = nodes[selected]]_vars

\* C20: a batch(fn2) call made while batch(fn1) is executing does not end the
\* save suppression of the outer batch: inside the outer batch nothing is
\* added to the stack until the outermost batch ends.
C20_NestedBatchIgnored ==
  [][(depth >= 1 /\ ~(last' = "batchEnd" /\ depth = 1))
       => /\ stack' = stack
          /\ last' = "batchEnd" => batching']_vars

\* C21: stopAll(silent) leaves no animation record and puts every node that
\* was animated back to its captured baseline; but for the toast the outcome
\* does not depend on silent.
C21_StopAllRestoresAll ==
  [][last' = "stopAll" =>
       /\ running' = NoRunning
       /\ \A i \in DOMAIN running \cap Range(layer) :
             nodes'[i] = BaselineOf(nodes[i], running[i].state)
       /\ \A i \in DOMAIN nodes' \ DOMAIN running : nodes'[i] = nodes[i]
       /\ toast' \in {toast, "All animations stopped"}
       /\ UNCHANGED <<stack, cursor, layer, shapeMap, selected, tweens>>]_vars

\* C22: stopForShape(id) for an id without a running record changes nothing;
\* for a record whose node is no longer in a layer it removes the record and
\* writes no attribute of the node.
C22_StopIsDefensive ==
  [][last' = "stopForShape" =>
       /\ running' = running =>
            UNCHANGED <<maxSteps, stack, cursor, batching, depth, nodes, layer,
                        nextId, shapeMap, nextUuid, selected, tweens, timers,
                        color, toast>>
       /\ \A i \in DOMAIN running \ DOMAIN running' :
            i \notin Range(layer) =>
              /\ i \in DOMAIN nodes' => nodes'[i] = nodes[i]
              /\ \A j \in DOMAIN nodes' \ {i} : nodes'[j] = nodes[j]
              /\ UNCHANGED <<stack, cursor, layer, shapeMap, selected, tweens,
                             toast>>]_vars

\* stopFor has just removed the record of a destroyed rect, which still has
\* the y value that a frame of 'float' wrote after the destruction
C22_Witness ==
  /\ last = "stopForShape"
  /\ running = NoRunning
  /\ \E u \in DOMAIN shapeMap :
        /\ shapeMap[u] \notin Range(layer)
        /\ shapeMap[u] \in DOMAIN nodes
        /\ nodes[shapeMap[u]].y # 11

\* C23: getById, selectById and updateById with an id that is not in the
\* identity map return null / false / false and leave the scene, the
\* selection, the identity map and the history as they were.
C23_AbsentIdRefused ==
  [][/\ \A u \in Eids \ DOMAIN shapeMap : GetById(u) = 0
     /\ last' \in {"selectByIdAbsent", "updateByIdAbsent"} =>
          UNCHANGED <<nodes, layer, selected, shapeMap, stack, cursor,
                      running, tweens, toast>>]_vars

\* updateById was called with an id that erase() has released, while another
\* shape is in the map
C23_Witness ==
  /\ last = "updateByIdAbsent"
  /\ DOMAIN shapeMap # {}
  /\ \E u \in 1..MaxUuid : u < nextUuid /\ u \notin DOMAIN shapeMap

\* C24: a restore whose correlation table has an entry that matches no
\* rebuilt node still completes for the other nodes: every shape of the
\* restored entry is attached and interactive, and a node that carries an
\* id is the node the identity map resolves the id to.
C24_RestoreCompletes ==
  [][(Restores /\ \E u \in DOMAIN stack'[cursor' + 1].uuidMap :
                     u \notin DOMAIN shapeMap')
       => /\ Len(Shapes(LayerJson(nodes', layer')))
               = Len(Shapes(stack'[cursor' + 1].json))
          /\ ShapeNodes' \subseteq Clickable'
          /\ \A i \in ShapeNodes' : nodes'[i].pub # NoPub => Carries(i)']_vars

\* a handler that calls save() once and is not suppressed by a batch
PushesOnce ==
  \/ ~batching /\ last' \in {"save", "create", "updateById", "duplicate",
                             "clearTimer"}
  \/ last' = "batchEnd"

\* C25: a save() that pushes an entry, and a successful undo() or redo(),
\* emits one 'history:change' event whose canUndo / canRedo are cursor > 0
\* and cursor < length - 1 of the new state; a save() that a batch
\* suppresses emits none.
C25_OneChangeEvent ==
  [][/\ (PushesOnce \/ Restores) =>
          notices' = << [canUndo |-> cursor' > 0,
                         canRedo |-> cursor' < Len(stack') - 1] >>
     /\ (batching /\ last' \in {"save", "create", "updateById", "duplicate",
                                "clearTimer"}) =>
          notices' = <<>> /\ stack' = stack]_vars

\* an undo() has announced that nothing is left to undo and a redo is
\* possible
C25_Witness ==
  /\ last = "undo"
  /\ notices = << [canUndo |-> FALSE, canRedo |-> TRUE] >>
  /\ cursor = 0
  /\ Len(stack) >= 2

\* C26: after animateAll() every draggable shape of the layer that is not
\* the watermark has a running animation, whatever was running before.
C26_AnimateAllCoversAll ==
  [][last' = "animateAll" =>
       \A i \in Range(layer') :
          (i # TR /\ nodes'[i].drag /\ nodes'[i].name # "watermark")
            => i \in DOMAIN running']_vars

\* 1-based index of node id in the children list s, 0 if it is not in it
Pos(s, id) == IF id \in Range(s) THEN CHOOSE k \in 1..Len(s) : s[k] = id ELSE 0

\* C27: in every reachable state the watermark is above every shape node in
\* the z-order of the layer.
C27_WatermarkOnTop ==
  \A i \in ShapeNodes : Pos(layer, WM) > Pos(layer, i)

\* C28: setActive(name) with a registered name calls the onDeactivate of the
\* tool that was active before the onActivate of the new one; a stage event
\* reaches the handlers of the active tool only; setActive with a name that
\* is not registered calls no handler and leaves the active tool.
C28_ToolLifecycle ==
  [][/\ last' = "setActive" =>
          /\ calls' = Called(active, "onDeactivate")
                        \o Called(active', "onActivate")
          /\ \A k \in 1..Len(calls') : \A m \in 1..Len(calls') :
                (calls'[k].h = "onDeactivate" /\ calls'[m].h = "onActivate")
                  => k < m
     /\ last' \in {"mousedown", "mousemove", "mouseup"} =>
          /\ active' = active
          /\ \A k \in 1..Len(calls') : calls'[k].tool = active
     /\ last' = "setActiveUnknown" =>
          /\ calls' = <<>>
          /\ UNCHANGED <<active, selected, nodes, layer, tempShape>>]_vars

\* the probe tool has been deactivated and the image tool activated
C28_Witness ==
  /\ last = "setActive"
  /\ active = "image"
  /\ calls = << [tool |-> "probe", h |-> "onDeactivate"],
                [tool |-> "image", h |-> "onActivate"] >>

\* C29: every animation record refers to a node that is attached to the
\* layer, under every interleaving of apply, erase, clearAll, loadState,
\* undo/redo and their delayed callbacks.
C29_RecordsOfLiveNodes ==
  \A i \in DOMAIN running : i \in Range(layer)

\* C30: when an undo() or redo() has run between erase(node) and the end of
\* its fade-out, the completion callback leaves the history alone: no entry
\* is added, no redo entry is dropped, canRedo() is what it was.
C30_LateEraseKeepsHistory ==
  [][(/\ last \in {"undo", "redo"}
      /\ last' = "tweenFinish"
      /\ \E t \in tweens \ tweens' :
            t.kind = "erase" /\ t.node \notin Range(layer))
       => /\ UNCHANGED <<stack, cursor>>
          /\ canRedo' = canRedo]_vars

\* the serialized child of entry e that was taken from the node at position
\* Pos(lay, id) of the layer lay
EntryOf(e, lay, id) == e.json[Pos(lay, id)]

\* C31: the entry an operation pushes records the scene once the operation
\* has fully taken effect: the entry of create() holds the new shape at the
\* end values of its entrance transition (opacity 1, scale 1), the entry of
\* alignCenter() holds the shape at the canvas centre, and a restore of an
\* entry shows no shape at the starting values of an entrance transition.
C31_EntryHoldsFinalState ==
  [][/\ (last' = "create" /\ ~batching) =>
          LET o == EntryOf(stack'[cursor' + 1], layer', nextId)
          IN /\ o.opa = TweenEnd("enter").opa
             /\ o.sx = TweenEnd("enter").sx
             /\ o.sy = TweenEnd("enter").sy
     /\ (last' = "alignCenter" /\ ~batching /\ selected # 0) =>
          LET o == EntryOf(stack'[cursor' + 1], layer', selected)
          IN /\ o.x = TweenEnd("align").x
             /\ o.y = TweenEnd("align").y
     /\ Restores =>
          \A i \in ShapeNodes' : ~(nodes'[i].opa = 0 /\ nodes'[i].sx = 5)]_vars

\* C32: after undo() or redo() has restored an entry the children of the
\* layer are, in the same z-order, the nodes the layer had when the entry
\* was saved: none is missing and none (a second watermark, a second
\* transformer) is added, so that serializing the layer gives the entry.
C32_RestoreKeepsChildren ==
  [][Restores =>
       /\ Len(layer') = Len(stack'[cursor' + 1].json)
       /\ LayerJson(nodes', layer') = stack'[cursor' + 1].json]_vars

\* C33: undo() and redo() never add, remove or replace entries: the restore
\* procedure triggers no save(), so the stack is the same before and after,
\* and the cursor is the only thing of the history that moves, by one (not
\* at all when the call is refused).
C33_UndoRedoKeepEntries ==
  [][/\ last' = "undo" =>
          /\ stack' = stack
          /\ cursor' = IF cursor > 0 THEN cursor - 1 ELSE cursor
          /\ UNCHANGED <<maxSteps, batching, depth>>
     /\ last' = "redo" =>
          /\ stack' = stack
          /\ cursor' = IF cursor < Len(stack) - 1 THEN cursor + 1 ELSE cursor
          /\ UNCHANGED <<maxSteps, batching, depth>>]_vars

\* an undo() has restored the middle entry of three while a shape was
\* selected: the restore has deselected it
C33_Witness ==
  /\ last = "undo"
  /\ toast = ""
  /\ Len(stack) = 3
  /\ cursor = 1
  /\ selected = 0
  /\ \E t \in tweens : t.kind = "unsel"

\* the positions of the calls named op in a sequence of calls
At(log, op) == { p \in 1..Len(log) : log[p].op = op }

\* C34: in the restore procedure the animations are stopped and the identity
\* map is cleared before any current node is destroyed; interactivity is
\* wired onto a rebuilt node only after every rebuilt node of the entry has
\* been attached to the layer; after the restore no node is selected.
C34_RestoreOrder ==
  [][Restores =>
       LET snap == stack'[cursor' + 1]
           log  == RestoreCalls(snap)
       IN /\ \A d \in At(log, "destroyChildren") :
                /\ \E p \in At(log, "stopAll") : p < d
                /\ \E p \in At(log, "clearMap") : p < d
          /\ \A w \in At(log, "makeInteractive") :
                \A k \in 1..Len(snap.json) :
                   \E a \in At(log, "attach") : log[a].k = k /\ a < w
          /\ selected' = 0]_vars

\* C35: when fn throws inside batch(fn), the batching flag is cleared and
\* one entry, of the scene as fn left it, is saved before the exception
\* leaves batch(); the saves fn made before it threw are suppressed, and a
\* save() made afterwards is not.
C35_ThrowingBatchSaves ==
  [][/\ last' = "batchThrow" =>
          /\ ~batching'
          /\ Body(stack') \in KeptOrEvicted
          /\ stack'[Len(stack')] = Snapshot(nodes, layer, shapeMap)
          /\ cursor' = Len(stack') - 1
          /\ UNCHANGED <<nodes, layer, shapeMap>>
     /\ (batching /\ last' \in {"save", "create"}) => stack' = stack
     /\ (last = "batchThrow" /\ last' \in {"save", "create"}) =>
          /\ Body(stack') \in KeptOrEvicted
          /\ stack'[Len(stack')] = Snapshot(nodes', layer', shapeMap')]_vars

\* fn created two shapes and threw: the history has its first entry, with
\* both shapes
C35_Witness ==
  /\ last = "batchThrow"
  /\ ~batching
  /\ depth = 0
  /\ maxSteps > 1
  /\ Len(stack) = 1
  /\ DOMAIN stack[1].uuidMap = {1, 2}

\* C36: a loadState(json) that succeeds adds one entry to the history,
\* whatever the number of shapes it loads: the entries below the new one are
\* the entries save() keeps, so that one undo() leads back to the entry that
\* was current before the load.
C36_LoadIsOneEntry ==
  [][(last' \in {"loadState", "roundTrip"} /\ ~batching) =>
       /\ Body(stack') \in KeptOrEvicted
       /\ stack'[Len(stack')] = Snapshot(nodes', layer', shapeMap')]_vars

\* C37: loadState(json) with a missing json, a missing shapes field or a
\* shapes field that is not an array returns false and leaves the scene, the
\* running animations, the selection, the identity map and the history as
\* they were.
C37_InvalidLoadRefused ==
  [][/\ \A json \in InvalidJsons : ~ValidState(json)
     /\ last' = "loadStateInvalid" =>
          UNCHANGED <<nodes, layer, running, selected, shapeMap, stack, cursor,
                      tweens, toast, nextId, nextUuid>>]_vars

\* an invalid state was refused while a shape was selected and animated and
\* the history had an entry
C37_Witness ==
  /\ last = "loadStateInvalid"
  /\ selected # 0
  /\ selected \in DOMAIN running
  /\ Len(stack) >= 1
  /\ DOMAIN shapeMap # {}

\* C38: the function of a handler subscribed with once(event, fn) is called
\* at most once: not a second time when the event is emitted again from
\* inside the handler, and not by any later emit.
C38_OnceIsOnce ==
  \A id \in DOMAIN invoked : invoked[id].once => invoked[id].n <= 1

\* C39: for every node the 'animation:start' and 'animation:stop' events
\* alternate, beginning with a start, and a stop carries the type of the
\* start before it: a node without a record has no open event, a node with
\* a record has one, the start of the record's type -- whichever of
\* stopAll(true), toggle-off, type switch, erase and undo/redo ended the
\* records before.
C39_StartStopAlternate ==
  /\ DOMAIN announced = DOMAIN running
  /\ \A i \in DOMAIN announced :
        announced[i] = <<Event("start", running[i].type)>>

\* a line whose 'rainbow' animation wrote a frame and was then ended by a
\* silent stopAll: no event of the line is open
C39_Witness ==
  /\ last = "stopAll"
  /\ toast = ""
  /\ announced = <<>>
  /\ running = NoRunning
  /\ \E i \in Range(layer) : nodes[i].fill \in FrameFills

====
